---- MODULE Spec2Model ----
(***************************************************************************)
(* Login proxy of dovecot-core: src/login-common/login-proxy.c driven by   *)
(* src/pop3-login/pop3-proxy.c.  Every C function is an operator that maps *)
(* a state record s (the proxies, the per-destination records, the three   *)
(* intrusive lists, the by-user hash, the clock) to the state it leaves.   *)
(* An i_assert() that fails stops the process: it is recorded in s.panic,  *)
(* and the step that hit it leaves the state before it plus the panic.     *)
(***************************************************************************)
EXTENDS Integers, Sequences, FiniteSets, TLC

VARIABLES proxies, recs, login_proxies_pending, login_proxies,
          login_proxies_disconnecting, login_proxies_hash,
          detached_login_proxies_count, ioloop_time, panic, ev, cfg,
          running, dsasl

vars == <<proxies, recs, login_proxies_pending, login_proxies,
          login_proxies_disconnecting, login_proxies_hash,
          detached_login_proxies_count, ioloop_time, panic, ev, cfg,
          running, dsasl>>

----------------------------------------------------------------------------
(* Program constants (login-proxy.c:28-43).                                *)
PROXY_MAX_OUTBUF_SIZE == 1024
LOGIN_PROXY_DIE_IDLE_SECS == 2
PROXY_CONNECT_RETRY_MSECS == 1000
PROXY_CONNECT_RETRY_MIN_MSECS == PROXY_CONNECT_RETRY_MSECS + 100
PROXY_DISCONNECT_INTERVAL_MSECS == 100
PROXY_REDIRECT_LOOP_MIN_COUNT == 2

(* Bounds of the model.                                                    *)
NumProxies == 2       \* proxies of the lifecycle specification
NumDests == 3         \* distinct (ip,port) destinations
NumUsers == 2         \* distinct virtual users
MaxReconnects == 1    \* login_proxy_max_reconnects of the lifecycle spec
MaxTtl == 7           \* proxy_ttl of the session that follows referrals
DownThreshold == 10   \* host_immediate_failure_after_secs, when it is set
MinTtl == 2           \* largest proxy_ttl of the sessions that run out of it
MaxClock == 2         \* seconds the clock may run past StartClock
StartClock == 40      \* seconds on the clock when the model starts
MaxCalls == 5         \* input() and output() calls made on one SASL client

Proxies == 1..NumProxies
Dests == 1..NumDests
Users == 1..NumUsers
StartMsecs == StartClock * 1000

NoReconnectTypes ==
    {"INTERNAL", "INTERNAL_CONFIG", "REMOTE_CONFIG", "AUTH_REPLIED",
     "AUTH_NOT_REPLIED"}

(* Sequence helpers for the DLLIST_* macros of llist.h.                    *)
InSeq(q, x) == \E i \in 1..Len(q) : q[i] = x
SeqRemove(q, x) == SelectSeq(q, LAMBDA y : y # x)
SeqPrepend(q, x) == <<x>> \o q

----------------------------------------------------------------------------
(* A C string is a sequence of characters, a pointer is NULL or holds one  *)
(* object; NUL is the zero byte.                                           *)
NULL == <<>>
Ptr(obj) == <<obj>>
NUL == "NUL"

(* struct login_proxy (login-proxy.c:58-104) with the fields of its client *)
(* the proxy reads (proxy_ttl, virtual_user, pop3 proxy_state); refused    *)
(* counts the connects of the session that failed.                         *)
NoTimer == [kind |-> "none", at |-> 0]

FreeProxy ==
    [alloc |-> FALSE, used |-> FALSE, user |-> 0, ip |-> 0, start_ip |-> 0,
     created |-> 0, to |-> NoTimer, to_notify |-> FALSE,
     server_fd |-> FALSE, server_io |-> "none", side_channel_io |-> FALSE,
     side_channel_input |-> FALSE, client_wait_io |-> FALSE,
     server_input |-> FALSE, client_input |-> FALSE,
     iostream_proxy |-> FALSE, server_ssl_iostream |-> FALSE,
     server_max_buffer |-> 0, client_max_buffer |-> 0,
     redirect_path |-> <<>>, followed |-> [d \in Dests |-> 0],
     reconnect_count |-> 0, connected |-> FALSE, detached |-> FALSE,
     destroying |-> FALSE, delayed_disconnect |-> FALSE,
     disable_reconnect |-> FALSE, anvil_connect_sent |-> FALSE,
     num_waiting_connections_updated |-> FALSE, proxy_ttl |-> 0,
     proxy_state |-> "banner", proxy_xclient |-> FALSE,
     proxy_sasl_client |-> NULL, last_io |-> 0,
     refused |-> 0]

(* struct login_proxy_record (login-proxy-state.h), reached through        *)
(* proxy->state_rec.                                                       *)
NewRecord ==
    [last_success |-> 0, last_failure |-> 0, num_waiting_connections |-> 0,
     num_proxying_connections |-> 0, num_disconnects_since_ts |-> 0,
     num_delayed_client_disconnects |-> 0, disconnect_timestamp |-> 0]

(* What the last step did, for the claims that speak about one call.       *)
NoEv ==
    [fail |-> "", reason |-> "", p |-> 0, reconnecting |-> FALSE,
     reconnect_count |-> 0, disable_reconnect |-> FALSE, left_msecs |-> 0,
     redirect |-> 0, redirect_from |-> 0, looping |-> FALSE, sockets |-> 0,
     connect_ip |-> 0, down_secs |-> 0, frees |-> 0, reply |-> "",
     kicked |-> 0, checked |-> FALSE, num_waiting |-> 0,
     last_success |-> 0, last_failure |-> 0, followed |-> 0,
     followed_total |-> 0, connect_ttl |-> 0, free_reasons |-> {},
     reaped |-> {}, delayed_frees |-> 0, timers_left |-> 0,
     rearmed |-> 0, replies |-> <<>>, forwarded |-> "",
     sent |-> <<>>, reconnecting_events |-> 0, reconnecting_callbacks |-> 0,
     waiting_before |-> 0, free_calls |-> {}, disconnect_side |-> "",
     connect_failed |-> [called |-> FALSE, ip |-> 0, connected |-> FALSE,
                         created |-> 0, now |-> 0, rec |-> NewRecord]]

St ==
    [px |-> proxies, rec |-> recs, pend |-> login_proxies_pending,
     det |-> login_proxies, disc |-> login_proxies_disconnecting,
     hash |-> login_proxies_hash, cnt |-> detached_login_proxies_count,
     now |-> ioloop_time, panic |-> panic, ev |-> NoEv]

(* i_assert(cond): the first failed assertion is kept.                     *)
IAssert(s, cond, name) ==
    IF cond \/ s.panic # "" THEN s ELSE [s EXCEPT !.panic = name]

Dec(n) == IF n > 0 THEN n - 1 ELSE 0

(* SIZE_MAX, the buffer limit o_stream_create_fd() is given.               *)
SIZE_MAX == -1

----------------------------------------------------------------------------
(* login_proxy_disconnect that releases the waiting count whether or not   *)
(* it was released already.                                                *)
login_proxy_disconnect_unguarded(s, p) ==
    LET px == s.px[p]
        d  == px.ip
        s1 == [IAssert(s, s.rec[d].num_waiting_connections > 0,
                       "num_waiting_connections > 0")
               EXCEPT !.rec[d].num_waiting_connections = Dec(@),
                      !.px[p].num_waiting_connections_updated = TRUE]
        s2 == IF px.connected
              THEN [IAssert(s1, s1.rec[d].num_proxying_connections > 0,
                            "num_proxying_connections > 0")
                    EXCEPT !.rec[d].num_proxying_connections = Dec(@)]
              ELSE s1
    IN  [s2 EXCEPT !.px[p].to = NoTimer, !.px[p].to_notify = FALSE,
                   !.px[p].iostream_proxy = FALSE,
                   !.px[p].server_ssl_iostream = FALSE,
                   !.px[p].side_channel_io = FALSE,
                   !.px[p].server_io = "none",
                   !.px[p].side_channel_input = FALSE,
                   !.px[p].server_input = FALSE,
                   !.px[p].server_max_buffer = 0,
                   !.px[p].server_fd = FALSE,
                   !.px[p].connected = FALSE]

(* login_proxy_disconnect (login-proxy.c:555-586).                         *)
login_proxy_disconnect(s, p) ==
    LET px == s.px[p]
        d  == px.ip
        s1 == IF ~px.num_waiting_connections_updated
              THEN [IAssert(s, s.rec[d].num_waiting_connections > 0,
                            "num_waiting_connections > 0")
                    EXCEPT !.rec[d].num_waiting_connections = Dec(@),
                           !.px[p].num_waiting_connections_updated = TRUE]
              ELSE s
        s2 == IF px.connected
              THEN [IAssert(s1, s1.rec[d].num_proxying_connections > 0,
                            "num_proxying_connections > 0")
                    EXCEPT !.rec[d].num_proxying_connections = Dec(@)]
              ELSE s1
    IN  [s2 EXCEPT !.px[p].to = NoTimer, !.px[p].to_notify = FALSE,
                   !.px[p].iostream_proxy = FALSE,
                   !.px[p].server_ssl_iostream = FALSE,
                   !.px[p].side_channel_io = FALSE,
                   !.px[p].server_io = "none",
                   !.px[p].side_channel_input = FALSE,
                   !.px[p].server_input = FALSE,
                   !.px[p].server_max_buffer = 0,
                   !.px[p].server_fd = FALSE,
                   !.px[p].connected = FALSE]

(* login_proxy_detached_link that starts a new chain for the user instead  *)
(* of prepending to the one the hash has.                                  *)
login_proxy_detached_link_chain_lost(s, p) ==
    LET u == s.px[p].user
    IN  [s EXCEPT !.hash[u] = <<p>>,
                  !.det = SeqPrepend(@, p),
                  !.cnt = @ + 1]

(* login_proxy_detached_link (login-proxy.c:588-605).                      *)
login_proxy_detached_link(s, p) ==
    LET u == s.px[p].user
    IN  [s EXCEPT !.hash[u] = SeqPrepend(@, p),
                  !.det = SeqPrepend(@, p),
                  !.cnt = @ + 1]

(* login_proxy_detached_unlink that leaves the proxy on login_proxies.     *)
login_proxy_detached_unlink_hash_only(s, p) ==
    LET u  == s.px[p].user
        s1 == IAssert(s, s.cnt > 0, "detached_login_proxies_count > 0")
        s2 == [s1 EXCEPT !.cnt = Dec(@)]
        s3 == IAssert(s2, s2.hash[u] # <<>>, "i_unreached (detached_unlink)")
    IN  [s3 EXCEPT !.hash[u] = SeqRemove(@, p)]

(* login_proxy_detached_unlink (login-proxy.c:607-628).                    *)
login_proxy_detached_unlink(s, p) ==
    LET u  == s.px[p].user
        s1 == IAssert(s, s.cnt > 0, "detached_login_proxies_count > 0")
        s2 == [s1 EXCEPT !.cnt = Dec(@), !.det = SeqRemove(@, p)]
        s3 == IAssert(s2, s2.hash[u] # <<>>, "i_unreached (detached_unlink)")
    IN  [s3 EXCEPT !.hash[u] = SeqRemove(@, p)]

(* login_proxy_free_final that takes a delayed proxy off the list without  *)
(* releasing its count.                                                    *)
login_proxy_free_final_uncounted(s, p) ==
    LET px == s.px[p]
        s1 == IAssert(s, ~px.server_ssl_iostream, "server_ssl_iostream == NULL")
        s2 == IF px.delayed_disconnect
              THEN [s1 EXCEPT !.disc = SeqRemove(@, p)]
              ELSE s1
    IN  [s2 EXCEPT !.px[p] = [FreeProxy EXCEPT !.used = TRUE],
                   !.ev.frees = @ + 1,
                   !.ev.delayed_frees =
                       IF px.delayed_disconnect THEN @ + 1 ELSE @]

(* login_proxy_free_final that leaves the timer of a delayed proxy armed.  *)
login_proxy_free_final_timer_kept(s, p) ==
    LET px == s.px[p]
        d  == px.ip
        s1 == IAssert(s, ~px.server_ssl_iostream, "server_ssl_iostream == NULL")
        s2 == IF px.delayed_disconnect
              THEN LET a == IAssert([s1 EXCEPT !.disc = SeqRemove(@, p)],
                                    s1.rec[d].num_delayed_client_disconnects > 0,
                                    "num_delayed_client_disconnects > 0")
                       b == [a EXCEPT
                               !.rec[d].num_delayed_client_disconnects = Dec(@)]
                   IN  IF b.rec[d].num_delayed_client_disconnects = 0
                       THEN [b EXCEPT !.rec[d].num_disconnects_since_ts = 0]
                       ELSE b
              ELSE s1
    IN  [s2 EXCEPT !.px[p] = [FreeProxy EXCEPT !.used = TRUE],
                   !.ev.frees = @ + 1,
                   !.ev.delayed_frees =
                       IF px.delayed_disconnect THEN @ + 1 ELSE @,
                   !.ev.timers_left =
                       IF px.to # NoTimer \/ px.to_notify THEN @ + 1 ELSE @]

(* login_proxy_free_final that keeps the disconnect count of the window   *)
(* when the last delayed proxy is freed.                                   *)
login_proxy_free_final_keeps_window(s, p) ==
    LET px == s.px[p]
        d  == px.ip
        s1 == IAssert(s, ~px.server_ssl_iostream, "server_ssl_iostream == NULL")
        s2 == IF px.delayed_disconnect
              THEN LET a == IAssert([s1 EXCEPT !.disc = SeqRemove(@, p)],
                                    s1.rec[d].num_delayed_client_disconnects > 0,
                                    "num_delayed_client_disconnects > 0")
                   IN  [a EXCEPT
                          !.rec[d].num_delayed_client_disconnects = Dec(@)]
              ELSE s1
    IN  [s2 EXCEPT !.px[p] = [FreeProxy EXCEPT !.used = TRUE],
                   !.ev.frees = @ + 1,
                   !.ev.delayed_frees =
                       IF px.delayed_disconnect THEN @ + 1 ELSE @,
                   !.ev.timers_left =
                       IF (~px.delayed_disconnect /\ px.to # NoTimer) \/
                          px.to_notify
                       THEN @ + 1 ELSE @]

(* login_proxy_free_final (login-proxy.c:630-652).                         *)
login_proxy_free_final(s, p) ==
    LET px == s.px[p]
        d  == px.ip
        s1 == IAssert(s, ~px.server_ssl_iostream, "server_ssl_iostream == NULL")
        s2 == IF px.delayed_disconnect
              THEN LET a == IAssert([s1 EXCEPT !.disc = SeqRemove(@, p)],
                                    s1.rec[d].num_delayed_client_disconnects > 0,
                                    "num_delayed_client_disconnects > 0")
                       b == [a EXCEPT
                               !.rec[d].num_delayed_client_disconnects = Dec(@)]
                   IN  IF b.rec[d].num_delayed_client_disconnects = 0
                       THEN [b EXCEPT !.rec[d].num_disconnects_since_ts = 0]
                       ELSE b
              ELSE s1
    IN  [s2 EXCEPT !.px[p] = [FreeProxy EXCEPT !.used = TRUE],
                   !.ev.frees = @ + 1,
                   !.ev.delayed_frees =
                       IF px.delayed_disconnect THEN @ + 1 ELSE @,
                   \* timeout_remove(&proxy->to) is inside the if: a timer
                   \* of a proxy that is not delayed would outlive it
                   !.ev.timers_left =
                       IF (~px.delayed_disconnect /\ px.to # NoTimer) \/
                          px.to_notify
                       THEN @ + 1 ELSE @]

(* login_proxy_delay_disconnect that schedules a time already reached.    *)
login_proxy_delay_disconnect_past_time(s, p, rnd) ==
    LET px  == s.px[p]
        d   == px.ip
        max_delay == cfg.max_delay
        s1  == IF s.rec[d].num_disconnects_since_ts = 0
               THEN [s EXCEPT !.rec[d].disconnect_timestamp = s.now + rnd]
               ELSE s
        s2  == [s1 EXCEPT !.rec[d].num_disconnects_since_ts = @ + 1]
        rec == s2.rec[d]
        max_conns == rec.num_proxying_connections + rec.num_disconnects_since_ts
        max_disconnects_per_sec == (max_conns + max_delay - 1) \div max_delay
        delay_msecs_since_ts ==
            PROXY_DISCONNECT_INTERVAL_MSECS *
            ((max_delay * rec.num_disconnects_since_ts *
              (1000 \div PROXY_DISCONNECT_INTERVAL_MSECS)) \div max_conns)
        delay_msecs ==
            (rec.disconnect_timestamp + delay_msecs_since_ts) - s.now
    IN  IF px.to # NoTimer THEN [s |-> s2, delay |-> 0]
        ELSE IF max_delay = 0 THEN [s |-> s2, delay |-> 0]
        ELSE IF rec.num_disconnects_since_ts <= max_disconnects_per_sec /\
                rec.num_delayed_client_disconnects = 0
             THEN [s |-> s2, delay |-> 0]
        ELSE [s |-> [s2 EXCEPT
                       !.rec[d].num_delayed_client_disconnects = @ + 1,
                       !.px[p].delayed_disconnect = TRUE,
                       !.px[p].to = [kind |-> "free_final",
                                     at |-> s.now + delay_msecs],
                       !.disc = SeqPrepend(@, p)],
              delay |-> delay_msecs]

(* login_proxy_delay_disconnect that counts the delay from now instead of  *)
(* from disconnect_timestamp.                                              *)
login_proxy_delay_disconnect_from_now(s, p, rnd) ==
    LET px  == s.px[p]
        d   == px.ip
        max_delay == cfg.max_delay
        s1  == IF s.rec[d].num_disconnects_since_ts = 0
               THEN [s EXCEPT !.rec[d].disconnect_timestamp = s.now + rnd]
               ELSE s
        s2  == [s1 EXCEPT !.rec[d].num_disconnects_since_ts = @ + 1]
        rec == s2.rec[d]
        max_conns == rec.num_proxying_connections + rec.num_disconnects_since_ts
        max_disconnects_per_sec == (max_conns + max_delay - 1) \div max_delay
        delay_msecs_since_ts ==
            PROXY_DISCONNECT_INTERVAL_MSECS *
            ((max_delay * rec.num_disconnects_since_ts *
              (1000 \div PROXY_DISCONNECT_INTERVAL_MSECS)) \div max_conns)
        delay_msecs ==
            delay_msecs_since_ts
    IN  IF px.to # NoTimer THEN [s |-> s2, delay |-> 0]
        ELSE IF max_delay = 0 THEN [s |-> s2, delay |-> 0]
        ELSE IF rec.num_disconnects_since_ts <= max_disconnects_per_sec /\
                rec.num_delayed_client_disconnects = 0
             THEN [s |-> s2, delay |-> 0]
        ELSE IF delay_msecs <= 0 THEN [s |-> s2, delay |-> 0]
        ELSE [s |-> [s2 EXCEPT
                       !.rec[d].num_delayed_client_disconnects = @ + 1,
                       !.px[p].delayed_disconnect = TRUE,
                       !.px[p].to = [kind |-> "free_final",
                                     at |-> s.now + delay_msecs],
                       !.disc = SeqPrepend(@, p)],
              delay |-> delay_msecs]

(* login_proxy_delay_disconnect (login-proxy.c:654-707): the state it      *)
(* leaves and the delay it returns.  rnd is i_rand_limit(100).             *)
login_proxy_delay_disconnect(s, p, rnd) ==
    LET px  == s.px[p]
        d   == px.ip
        max_delay == cfg.max_delay
        s1  == IF s.rec[d].num_disconnects_since_ts = 0
               THEN [s EXCEPT !.rec[d].disconnect_timestamp = s.now + rnd]
               ELSE s
        s2  == [s1 EXCEPT !.rec[d].num_disconnects_since_ts = @ + 1]
        rec == s2.rec[d]
        max_conns == rec.num_proxying_connections + rec.num_disconnects_since_ts
        max_disconnects_per_sec == (max_conns + max_delay - 1) \div max_delay
        delay_msecs_since_ts ==
            PROXY_DISCONNECT_INTERVAL_MSECS *
            ((max_delay * rec.num_disconnects_since_ts *
              (1000 \div PROXY_DISCONNECT_INTERVAL_MSECS)) \div max_conns)
        delay_msecs ==
            (rec.disconnect_timestamp + delay_msecs_since_ts) - s.now
    IN  IF px.to # NoTimer THEN [s |-> s2, delay |-> 0]
        ELSE IF max_delay = 0 THEN [s |-> s2, delay |-> 0]
        ELSE IF rec.num_disconnects_since_ts <= max_disconnects_per_sec /\
                rec.num_delayed_client_disconnects = 0
             THEN [s |-> s2, delay |-> 0]
        ELSE IF delay_msecs <= 0 THEN [s |-> s2, delay |-> 0]
        ELSE [s |-> [s2 EXCEPT
                       !.rec[d].num_delayed_client_disconnects = @ + 1,
                       !.px[p].delayed_disconnect = TRUE,
                       !.px[p].to = [kind |-> "free_final",
                                     at |-> s.now + delay_msecs],
                       !.disc = SeqPrepend(@, p)],
              delay |-> delay_msecs]

(* The teardown of login_proxy_free_full (login-proxy.c:726-793), what it  *)
(* does once it has found destroying clear.  delayed is                    *)
(* flags & LOGIN_PROXY_FREE_FLAG_DELAYED.                                  *)
login_proxy_free_full_teardown(s, p, delayed, rnd) ==
    LET px == s.px[p]
        s1 == [s EXCEPT !.px[p].destroying = TRUE,
                        \* the call as it was made: proxy, flag, detached
                        !.ev.free_calls =
                            @ \cup {[p |-> p, delayed |-> delayed,
                                     detached |-> px.detached]}]
        s2 == IF px.detached
              THEN IAssert(s1, px.connected, "proxy->connected")
              ELSE s1
        s3 == login_proxy_disconnect(s2, p)
    IN  IF px.detached
        THEN LET s4 == login_proxy_detached_unlink(s3, p)
                 dd == IF delayed
                       THEN login_proxy_delay_disconnect(s4, p, rnd)
                       ELSE [s |-> s4, delay |-> 0]
             IN  IF dd.delay = 0
                 THEN login_proxy_free_final(dd.s, p)
                 ELSE [IAssert(dd.s, ~dd.s.px[p].client_wait_io,
                               "client_wait_io == NULL")
                       EXCEPT !.px[p].client_wait_io = TRUE]
        ELSE LET s4 == IAssert(s3, ~px.client_input, "client_input == NULL")
                 s5 == [s4 EXCEPT !.pend = SeqRemove(@, p)]
             IN  login_proxy_free_final(s5, p)

(* login_proxy_free_full that tears down without looking at destroying.    *)
login_proxy_free_full_reentered(s, p, delayed, rnd) ==
    login_proxy_free_full_teardown(s, p, delayed, rnd)

(* login_proxy_free_full (login-proxy.c:709-793).                          *)
login_proxy_free_full(s, p, delayed, rnd) ==
    IF s.px[p].destroying THEN s
    ELSE login_proxy_free_full_teardown(s, p, delayed, rnd)

(* login_proxy_free (login-proxy.c:795-804).                               *)
login_proxy_free(s, p) == login_proxy_free_full(s, p, FALSE, 0)

----------------------------------------------------------------------------
(* The recursion login_proxy_failed -> redirect callback ->                *)
(* login_proxy_redirect_finish -> login_proxy_connect -> login_proxy_failed *)
(* of the source; it ends because the second call is never AUTH_REDIRECT.   *)
RECURSIVE login_proxy_failed(_, _, _, _, _)

(* proxy_plain_connected that creates the server output stream with the   *)
(* limit of the relay.                                                     *)
proxy_plain_connected_clamped(s, p) ==
    [s EXCEPT !.px[p].server_input = TRUE,
              !.px[p].server_max_buffer = PROXY_MAX_OUTBUF_SIZE,
              !.px[p].server_io = "read"]

(* proxy_plain_connected (login-proxy.c:231-248).                          *)
proxy_plain_connected(s, p) ==
    [s EXCEPT !.px[p].server_input = TRUE,
              !.px[p].server_max_buffer = SIZE_MAX,
              !.px[p].server_io = "read"]

(* proxy_fail_connect that forgets to mark the waiting count released.     *)
proxy_fail_connect_unmarked(s, p) ==
    LET px == s.px[p]
        d  == px.ip
        s1 == IAssert(s, ~px.num_waiting_connections_updated,
                      "!num_waiting_connections_updated")
        s2 == IF px.created < s1.rec[d].last_success
              THEN s1
              ELSE [s1 EXCEPT !.rec[d].last_failure = s.now]
        s3 == IAssert(s2, s2.rec[d].num_waiting_connections > 0,
                      "num_waiting_connections > 0")
    IN  [s3 EXCEPT !.rec[d].num_waiting_connections = Dec(@)]

(* proxy_fail_connect that records every failure.                          *)
proxy_fail_connect_stamps_always(s, p) ==
    LET px == s.px[p]
        d  == px.ip
        s1 == IAssert(s, ~px.num_waiting_connections_updated,
                      "!num_waiting_connections_updated")
        s2 == [s1 EXCEPT !.rec[d].last_failure = s.now]
        s3 == IAssert(s2, s2.rec[d].num_waiting_connections > 0,
                      "num_waiting_connections > 0")
    IN  [s3 EXCEPT !.rec[d].num_waiting_connections = Dec(@),
                   !.px[p].num_waiting_connections_updated = TRUE]

(* proxy_fail_connect (login-proxy.c:250-264).                             *)
proxy_fail_connect(s, p) ==
    LET px == s.px[p]
        d  == px.ip
        s1 == IAssert(s, ~px.num_waiting_connections_updated,
                      "!num_waiting_connections_updated")
        s2 == IF px.created < s1.rec[d].last_success
              THEN s1
              ELSE [s1 EXCEPT !.rec[d].last_failure = s.now]
        s3 == IAssert(s2, s2.rec[d].num_waiting_connections > 0,
                      "num_waiting_connections > 0")
    IN  [s3 EXCEPT !.rec[d].num_waiting_connections = Dec(@),
                   !.px[p].num_waiting_connections_updated = TRUE]

(* login_proxy_set_destination (login-proxy.c:306-323).                    *)
login_proxy_set_destination(s, p, ip) == [s EXCEPT !.px[p].ip = ip]

(* The budget test of proxy_try_reconnect (login-proxy.c:352-358):         *)
(* left_msecs, and whether it allows a retry.                              *)
left_msecs(s, p) ==
    cfg.connect_timeout_msecs - (s.now - s.px[p].created)

retry_budget_left(s, p) ==
    /\ s.now - s.px[p].created >= 0
    /\ ~(left_msecs(s, p) <= PROXY_CONNECT_RETRY_MIN_MSECS)

(* proxy_try_reconnect that forgets to count the attempt.                  *)
proxy_try_reconnect_uncounted(s, p) ==
    LET px == s.px[p]
    IN  IF px.reconnect_count >= cfg.login_proxy_max_reconnects
        THEN [s |-> s, ok |-> FALSE]
        ELSE IF px.disable_reconnect THEN [s |-> s, ok |-> FALSE]
        ELSE IF ~retry_budget_left(s, p) THEN [s |-> s, ok |-> FALSE]
        ELSE LET s1 == login_proxy_disconnect(s, p)
             IN  [s |-> [s1 EXCEPT
                           !.ev.rearmed =
                               IF s1.px[p].to # NoTimer THEN @ + 1 ELSE @,
                           !.px[p].to =
                               [kind |-> "reconnect",
                                at |-> s.now + PROXY_CONNECT_RETRY_MSECS]],
                  ok |-> TRUE]

(* proxy_try_reconnect (login-proxy.c:343-365): the state and the result.  *)
proxy_try_reconnect(s, p) ==
    LET px == s.px[p]
    IN  IF px.reconnect_count >= cfg.login_proxy_max_reconnects
        THEN [s |-> s, ok |-> FALSE]
        ELSE IF px.disable_reconnect THEN [s |-> s, ok |-> FALSE]
        ELSE IF ~retry_budget_left(s, p) THEN [s |-> s, ok |-> FALSE]
        ELSE LET s1 == login_proxy_disconnect(s, p)
             IN  [s |-> [s1 EXCEPT
                           !.ev.rearmed =
                               IF s1.px[p].to # NoTimer THEN @ + 1 ELSE @,
                           !.px[p].to =
                               [kind |-> "reconnect",
                                at |-> s.now + PROXY_CONNECT_RETRY_MSECS],
                           !.px[p].reconnect_count = @ + 1],
                  ok |-> TRUE]

(* proxy_is_self (login-proxy.c:367-371).                                  *)
proxy_is_self(s, p, ip) == s.px[p].ip = ip

(* login_proxy_redirect_find (login-proxy.c:373-387): the index of the     *)
(* first entry of redirect_path for ip, 0 for NULL.                        *)
login_proxy_redirect_find(s, p, ip) ==
    LET path == s.px[p].redirect_path
        hits == {i \in 1..Len(path) : path[i].ip = ip}
    IN  IF hits = {} THEN 0
        ELSE CHOOSE i \in hits : \A j \in hits : i <= j

(* proxy_connect_failed (login-proxy.c:389-399).                           *)
proxy_connect_failed(s, p) ==
    LET s0 == [s EXCEPT !.ev.connect_failed =
                  [called |-> TRUE, ip |-> s.px[p].ip,
                   connected |-> s.px[p].connected,
                   created |-> s.px[p].created, now |-> s.now,
                   rec |-> s.rec[s.px[p].ip]]]
        s1 == IF ~s.px[p].connected
              THEN [proxy_fail_connect(s0, p) EXCEPT !.px[p].refused = @ + 1]
              ELSE s0
    IN  login_proxy_failed(s1, p, "CONNECT",
                           IF s.px[p].connected THEN "login timed out"
                           ELSE "connect failed", FALSE)

(* login_proxy_multiplex_input_start (login-proxy.c:1308-1330).            *)
login_proxy_multiplex_input_start(s, p) ==
    LET s1 == IAssert(s, ~s.px[p].side_channel_input,
                      "multiplex_orig_input == NULL")
        s2 == IAssert(s1, ~s.px[p].side_channel_io, "side_channel_io == NULL")
    IN  [s2 EXCEPT !.px[p].side_channel_input = TRUE,
                   !.px[p].side_channel_io = TRUE,
                   !.px[p].server_io = "read"]

(* login_proxy_starttls (login-proxy.c:1246-1306).  tls is what the TLS    *)
(* library answers: "ok", "create_failed" or "handshake_failed".  The      *)
(* result is the state and the return value.                               *)
login_proxy_starttls(s, p, tls) ==
    LET add_multiplex_istream == s.px[p].side_channel_input
        s1 == [s EXCEPT !.px[p].side_channel_io = FALSE,
                        !.px[p].server_io = "none",
                        !.px[p].side_channel_input = FALSE]
    IN  IF tls = "create_failed"
        THEN [s |-> login_proxy_failed(s1, p, "INTERNAL",
                                       "Failed to create SSL client", FALSE),
              ret |-> -1]
        ELSE IF tls = "handshake_failed"
        THEN [s |-> login_proxy_failed(
                        [s1 EXCEPT !.px[p].server_ssl_iostream = TRUE],
                        p, "INTERNAL", "Failed to start SSL handshake", FALSE),
              ret |-> -1]
        ELSE LET s2 == [s1 EXCEPT !.px[p].server_ssl_iostream = TRUE,
                                  !.px[p].server_io = "read"]
             IN  [s |-> IF add_multiplex_istream
                        THEN login_proxy_multiplex_input_start(s2, p)
                        ELSE s2,
                  ret |-> 0]

(* proxy_wait_connect that does not count the connection as proxying.      *)
proxy_wait_connect_not_proxying(s, p, err, tls) ==
    IF err THEN proxy_connect_failed(s, p)
    ELSE
    LET d  == s.px[p].ip
        s1 == [s EXCEPT !.px[p].connected = TRUE,
                        !.px[p].num_waiting_connections_updated = TRUE,
                        !.rec[d].last_success = s.now]
        s2 == IAssert(s1, s1.rec[d].num_waiting_connections > 0,
                      "num_waiting_connections > 0")
        s3 == [s2 EXCEPT !.rec[d].num_waiting_connections = Dec(@),
                         !.rec[d].num_disconnects_since_ts = 0]
        s4 == proxy_plain_connected(s3, p)
    IN  IF "YES" \in cfg.ssl_flags /\ "STARTTLS" \notin cfg.ssl_flags
        THEN login_proxy_starttls(s4, p, tls).s
        ELSE s4

(* proxy_wait_connect (login-proxy.c:401-425).  err is net_geterror() # 0. *)
proxy_wait_connect(s, p, err, tls) ==
    IF err THEN proxy_connect_failed(s, p)
    ELSE
    LET d  == s.px[p].ip
        s1 == [s EXCEPT !.px[p].connected = TRUE,
                        !.px[p].num_waiting_connections_updated = TRUE,
                        !.rec[d].last_success = s.now]
        s2 == IAssert(s1, s1.rec[d].num_waiting_connections > 0,
                      "num_waiting_connections > 0")
        s3 == [s2 EXCEPT !.rec[d].num_waiting_connections = Dec(@),
                         !.rec[d].num_proxying_connections = @ + 1,
                         !.rec[d].num_disconnects_since_ts = 0]
        s4 == proxy_plain_connected(s3, p)
    IN  IF "YES" \in cfg.ssl_flags /\ "STARTTLS" \notin cfg.ssl_flags
        THEN login_proxy_starttls(s4, p, tls).s
        ELSE s4

(* The immediate-failure test of login_proxy_connect                       *)
(* (login-proxy.c:459-470) on the record as the connect finds it.          *)
seeded_last_success(rec, now) ==
    IF rec.last_success \div 1000 = 0
    THEN ((now \div 1000) - 1) * 1000 + (rec.last_success % 1000)
    ELSE rec.last_success

down_secs(rec) ==
    IF rec.last_failure > rec.last_success
    THEN (rec.last_failure - rec.last_success) \div 1000
    ELSE 0

(* The immediate-failure test with the threshold itself counted as down.   *)
host_is_down_at_threshold(rec) ==
    /\ cfg.host_immediate_failure_after_secs # 0
    /\ down_secs(rec) >= cfg.host_immediate_failure_after_secs
    /\ rec.num_waiting_connections > 1

(* The immediate-failure test that counts a lone attempt as a crowd.       *)
host_is_down_no_probe(rec) ==
    /\ cfg.host_immediate_failure_after_secs # 0
    /\ down_secs(rec) > cfg.host_immediate_failure_after_secs
    /\ rec.num_waiting_connections > 0

host_is_down(rec) ==
    /\ cfg.host_immediate_failure_after_secs # 0
    /\ down_secs(rec) > cfg.host_immediate_failure_after_secs
    /\ rec.num_waiting_connections > 1

(* The TTL test of login_proxy_connect that lets a TTL of 1 through.       *)
ttl_reached_zero_below_one(s, p) == s.px[p].proxy_ttl < 1

(* The TTL test of login_proxy_connect (login-proxy.c:452).                *)
ttl_reached_zero(s, p) == s.px[p].proxy_ttl <= 1

(* login_proxy_connect that counts the attempt only when the pre-checks    *)
(* have passed.                                                            *)
login_proxy_connect_counts_late(s, p, fd_ok) ==
    LET d  == s.px[p].ip
        s1 == [s EXCEPT !.ev.waiting_before =
                            s.rec[d].num_waiting_connections,
                        !.ev.p = p, !.ev.connect_ip = d,
                        !.ev.connect_ttl = s.px[p].proxy_ttl]
    IN  IF cfg.local_name = "invalid"
        THEN login_proxy_failed(s1, p, "INTERNAL", "Invalid local_name", FALSE)
        ELSE IF ttl_reached_zero(s1, p)
        THEN login_proxy_failed(s1, p, "REMOTE_CONFIG", "TTL reached zero", FALSE)
        ELSE
        LET ls == seeded_last_success(s1.rec[d], s1.now)
            s2 == [s1 EXCEPT !.rec[d].last_success = ls,
                             !.ev.checked = TRUE,
                             !.ev.num_waiting =
                                 s1.rec[d].num_waiting_connections,
                             !.ev.last_success = ls,
                             !.ev.last_failure = s1.rec[d].last_failure]
            s3 == [s2 EXCEPT !.px[p].num_waiting_connections_updated = FALSE,
                             !.rec[d].num_waiting_connections = @ + 1]
        IN  IF host_is_down(s2.rec[d])
            THEN login_proxy_failed(
                     [s2 EXCEPT !.px[p].disable_reconnect = TRUE,
                                !.ev.down_secs = down_secs(s2.rec[d])],
                     p, "CONNECT", "Host has been down", FALSE)
            ELSE IF ~fd_ok
            THEN proxy_connect_failed([s3 EXCEPT !.ev.sockets = @ + 1], p)
            ELSE [s3 EXCEPT
                    !.ev.sockets = @ + 1,
                    !.ev.rearmed =
                        IF cfg.connect_timeout_msecs # 0 /\
                           s3.px[p].to # NoTimer
                        THEN @ + 1 ELSE @,
                    !.px[p].server_fd = TRUE,
                    !.px[p].server_io = "write",
                    !.px[p].to =
                        IF cfg.connect_timeout_msecs # 0
                        THEN [kind |-> "connect",
                              at |-> s.now + cfg.connect_timeout_msecs]
                        ELSE @]

(* login_proxy_connect (login-proxy.c:433-501).  fd_ok is whether          *)
(* net_connect_ip() returned a socket.                                     *)
login_proxy_connect(s, p, fd_ok) ==
    LET d  == s.px[p].ip
        s1 == [s EXCEPT !.px[p].num_waiting_connections_updated = FALSE,
                        !.rec[d].num_waiting_connections = @ + 1,
                        !.ev.waiting_before =
                            s.rec[d].num_waiting_connections,
                        !.ev.p = p, !.ev.connect_ip = d,
                        !.ev.connect_ttl = s.px[p].proxy_ttl]
    IN  IF cfg.local_name = "invalid"
        THEN login_proxy_failed(s1, p, "INTERNAL", "Invalid local_name", FALSE)
        ELSE IF ttl_reached_zero(s1, p)
        THEN login_proxy_failed(s1, p, "REMOTE_CONFIG", "TTL reached zero", FALSE)
        ELSE
        LET ls == seeded_last_success(s1.rec[d], s1.now)
            s2 == [s1 EXCEPT !.rec[d].last_success = ls,
                             !.ev.checked = TRUE,
                             !.ev.num_waiting =
                                 s1.rec[d].num_waiting_connections,
                             !.ev.last_success = ls,
                             !.ev.last_failure = s1.rec[d].last_failure]
        IN  IF host_is_down(s2.rec[d])
            THEN login_proxy_failed(
                     [s2 EXCEPT !.px[p].disable_reconnect = TRUE,
                                !.ev.down_secs = down_secs(s2.rec[d])],
                     p, "CONNECT", "Host has been down", FALSE)
            ELSE IF ~fd_ok
            THEN proxy_connect_failed([s2 EXCEPT !.ev.sockets = @ + 1], p)
            ELSE [s2 EXCEPT
                    !.ev.sockets = @ + 1,
                    !.ev.rearmed =
                        IF cfg.connect_timeout_msecs # 0 /\
                           s2.px[p].to # NoTimer
                        THEN @ + 1 ELSE @,
                    !.px[p].server_fd = TRUE,
                    !.px[p].server_io = "write",
                    !.px[p].to =
                        IF cfg.connect_timeout_msecs # 0
                        THEN [kind |-> "connect",
                              at |-> s.now + cfg.connect_timeout_msecs]
                        ELSE @]

(* login_proxy_redirect_finish that leaves the TTL alone.                  *)
login_proxy_redirect_finish_ttl_kept(s, p, ip, fd_ok) ==
    LET px  == s.px[p]
        idx == login_proxy_redirect_find(s, p, ip)
        looping ==
            \/ proxy_is_self(s, p, ip)
            \/ /\ idx # 0
               /\ px.redirect_path[idx].count >= PROXY_REDIRECT_LOOP_MIN_COUNT
        s0  == [s EXCEPT !.ev.redirect = ip, !.ev.redirect_from = px.ip,
                         !.ev.looping = looping, !.ev.p = p,
                         !.ev.followed = px.followed[ip],
                         !.ev.followed_total =
                             cfg.proxy_ttl - px.proxy_ttl]
    IN  IF looping
        THEN login_proxy_failed(s0, p, "INTERNAL_CONFIG", "Proxying loops", FALSE)
        ELSE
        LET s1 == IAssert(s0, px.proxy_ttl > 0, "proxy_ttl > 0")
            \* redirect is uninitialized when proxy_is_self() made the
            \* decision; that branch always returns above.
            s2 == IF idx = 0
                  THEN [s1 EXCEPT !.px[p].redirect_path =
                            Append(@, [ip |-> px.ip, count |-> 1])]
                  ELSE [s1 EXCEPT !.px[p].redirect_path[idx].count = @ + 1]
            s3 == login_proxy_disconnect(s2, p)
            s4 == login_proxy_set_destination(s3, p, ip)
            s5 == [s4 EXCEPT !.px[p].followed[ip] = @ + 1]
        IN  login_proxy_connect(s5, p, fd_ok)

(* login_proxy_redirect_finish (login-proxy.c:930-975).                    *)
login_proxy_redirect_finish(s, p, ip, fd_ok) ==
    LET px  == s.px[p]
        idx == login_proxy_redirect_find(s, p, ip)
        looping ==
            \/ proxy_is_self(s, p, ip)
            \/ /\ idx # 0
               /\ px.redirect_path[idx].count >= PROXY_REDIRECT_LOOP_MIN_COUNT
        s0  == [s EXCEPT !.ev.redirect = ip, !.ev.redirect_from = px.ip,
                         !.ev.looping = looping, !.ev.p = p,
                         !.ev.followed = px.followed[ip],
                         !.ev.followed_total =
                             cfg.proxy_ttl - px.proxy_ttl]
    IN  IF looping
        THEN login_proxy_failed(s0, p, "INTERNAL_CONFIG", "Proxying loops", FALSE)
        ELSE
        LET s1 == [IAssert(s0, px.proxy_ttl > 0, "proxy_ttl > 0")
                   EXCEPT !.px[p].proxy_ttl = Dec(@)]
            \* redirect is uninitialized when proxy_is_self() made the
            \* decision; that branch always returns above.
            s2 == IF idx = 0
                  THEN [s1 EXCEPT !.px[p].redirect_path =
                            Append(@, [ip |-> px.ip, count |-> 1])]
                  ELSE [s1 EXCEPT !.px[p].redirect_path[idx].count = @ + 1]
            s3 == login_proxy_disconnect(s2, p)
            s4 == login_proxy_set_destination(s3, p, ip)
            s5 == [s4 EXCEPT !.px[p].followed[ip] = @ + 1]
        IN  login_proxy_connect(s5, p, fd_ok)

----------------------------------------------------------------------------
(* login_proxy_detach that leaves the login timer and the pre-login        *)
(* watcher in place.                                                       *)
login_proxy_detach_keeps_watchers(s, p, bypass, anvil_ok) ==
    LET px == s.px[p]
        s1 == IAssert(s, ~px.detached, "!proxy->detached")
        s2 == IAssert(s1, px.server_input, "server_input != NULL")
        s3 == [s2 EXCEPT !.px[p].detached = TRUE,
                         !.px[p].client_input = TRUE,
                         !.px[p].side_channel_input =
                             IF @ /\ bypass THEN FALSE ELSE @,
                         !.px[p].client_max_buffer = PROXY_MAX_OUTBUF_SIZE,
                         !.px[p].iostream_proxy = TRUE,
                         !.px[p].last_io = s.now,
                         !.px[p].to_notify = (cfg.notify_refresh_secs # 0)]
        s4 == [IAssert(s3, ~px.anvil_connect_sent, "!anvil_connect_sent")
               EXCEPT !.px[p].anvil_connect_sent = anvil_ok]
        s5 == [s4 EXCEPT !.pend = SeqRemove(@, p)]
    IN  login_proxy_detached_link(s5, p)

(* login_proxy_detach (login-proxy.c:1174-1244).  bypass is whether        *)
(* client->multiplex_output == proxy->client_output, anvil_ok what         *)
(* master_service_anvil_connect() returns.                                 *)
login_proxy_detach(s, p, bypass, anvil_ok) ==
    LET px == s.px[p]
        s1 == IAssert(s, ~px.detached, "!proxy->detached")
        s2 == IAssert(s1, px.server_input, "server_input != NULL")
        s3 == [s2 EXCEPT !.px[p].to = NoTimer,
                         !.px[p].server_io = "none",
                         !.px[p].detached = TRUE,
                         !.px[p].client_input = TRUE,
                         !.px[p].side_channel_input =
                             IF @ /\ bypass THEN FALSE ELSE @,
                         !.px[p].client_max_buffer = PROXY_MAX_OUTBUF_SIZE,
                         !.px[p].iostream_proxy = TRUE,
                         !.px[p].last_io = s.now,
                         !.px[p].to_notify = (cfg.notify_refresh_secs # 0)]
        s4 == [IAssert(s3, ~px.anvil_connect_sent, "!anvil_connect_sent")
               EXCEPT !.px[p].anvil_connect_sent = anvil_ok]
        s5 == [s4 EXCEPT !.pend = SeqRemove(@, p)]
    IN  login_proxy_detached_link(s5, p)

(* pop3_proxy_reset (pop3-proxy.c:325-330).                                *)
pop3_proxy_reset(s, p) == [s EXCEPT !.px[p].proxy_state = "banner"]

(* pop3_proxy_send_failure_reply (pop3-proxy.c:332-360).                   *)
pop3_proxy_send_failure_reply(s, type) ==
    IF type \in {"CONNECT", "INTERNAL", "REMOTE", "PROTOCOL", "AUTH_REDIRECT"}
    THEN [s EXCEPT !.ev.reply = "TEMPFAIL",
                   !.ev.replies = Append(@, "TEMPFAIL")]
    ELSE IF type \in {"INTERNAL_CONFIG", "REMOTE_CONFIG", "AUTH_NOT_REPLIED"}
    THEN [s EXCEPT !.ev.reply = "ERROR",
                   !.ev.replies = Append(@, "ERROR")]
    ELSE IF type = "AUTH_TEMPFAIL"
    THEN [s EXCEPT !.ev.reply = "ERROR reason",
                   !.ev.replies = Append(@, "ERROR [SYS/TEMP]")]
    ELSE s

(* client_common_proxy_failed of client-common-auth.c: a reconnect resets  *)
(* the driver, a final failure destroys the proxy session.                 *)
client_common_proxy_failed(s, p, type, reconnecting) ==
    LET s1 == [s EXCEPT !.px[p].proxy_sasl_client = NULL]
    IN  IF reconnecting THEN pop3_proxy_reset(s1, p)
        ELSE login_proxy_free(s1, p)

(* pop3_proxy_failed that sends the failure reply before it looks at       *)
(* reconnecting.                                                           *)
pop3_proxy_failed_replies_first(s, p, type, reconnecting) ==
    client_common_proxy_failed(
        pop3_proxy_send_failure_reply(s, type), p, type, reconnecting)

(* pop3_proxy_failed (pop3-proxy.c:362-369), the failure_callback.         *)
pop3_proxy_failed(s, p, type, reconnecting) ==
    client_common_proxy_failed(
        IF ~reconnecting THEN pop3_proxy_send_failure_reply(s, type) ELSE s,
        p, type, reconnecting)

(* The redirect_callback of client-common-auth.c: the referral names the   *)
(* destination, the driver starts over and the redirect is finished.       *)
redirect_callback(s, p, ip, fd_ok) ==
    login_proxy_redirect_finish(
        pop3_proxy_reset([s EXCEPT !.px[p].proxy_sasl_client = NULL], p),
        p, ip, fd_ok)

(* login_proxy_failed (login-proxy.c:806-868).  For AUTH_REDIRECT reason   *)
(* is the destination the referral names; fd_ok answers a connect made     *)
(* on the way.                                                             *)
login_proxy_failed(s, p, type, reason, fd_ok) ==
    IF type = "AUTH_REDIRECT"
    THEN redirect_callback(s, p, reason, fd_ok)
    ELSE
    LET try_reconnect == type \notin NoReconnectTypes
        tr == IF try_reconnect THEN proxy_try_reconnect(s, p)
              ELSE [s |-> s, ok |-> FALSE]
        s1 == [tr.s EXCEPT !.ev.fail = type, !.ev.reason = reason,
                           !.ev.p = p,
                           !.ev.reconnect_count = s.px[p].reconnect_count,
                           !.ev.disable_reconnect = s.px[p].disable_reconnect,
                           !.ev.left_msecs = left_msecs(s, p),
                           !.ev.reconnecting = tr.ok,
                           !.ev.reconnecting_events =
                               IF tr.ok THEN @ + 1 ELSE @,
                           !.ev.reconnecting_callbacks =
                               IF tr.ok THEN @ + 1 ELSE @]
    IN  pop3_proxy_failed(s1, p, type, tr.ok)

----------------------------------------------------------------------------
(* lib-sasl.                                                               *)
(* The base64 alphabet and the byte value of a character.                  *)
B64 ==
    <<"A", "B", "C", "D", "E", "F", "G", "H", "I", "J", "K", "L", "M",
      "N", "O", "P", "Q", "R", "S", "T", "U", "V", "W", "X", "Y", "Z",
      "a", "b", "c", "d", "e", "f", "g", "h", "i", "j", "k", "l", "m",
      "n", "o", "p", "q", "r", "s", "t", "u", "v", "w", "x", "y", "z",
      "0", "1", "2", "3", "4", "5", "6", "7", "8", "9", "+", "/">>

Ord(ch) ==
    IF ch = NUL THEN 0
    ELSE LET i == CHOOSE k \in 1..Len(B64) : B64[k] = ch
         IN  IF i <= 26 THEN 64 + i
             ELSE IF i <= 52 THEN 96 + (i - 26)
             ELSE IF i <= 62 THEN 48 + (i - 53)
             ELSE IF i = 63 THEN 43 ELSE 47

(* base64_encode() of lib/base64.c: three bytes give four characters, a    *)
(* last group of one or two bytes is padded with '='.                      *)
RECURSIVE base64_encode(_)
base64_encode(data) ==
    LET b(i) == Ord(data[i])
        e(n) == B64[n + 1]
    IN  IF Len(data) = 0 THEN ""
        ELSE IF Len(data) = 1
        THEN e(b(1) \div 4) \o e((b(1) % 4) * 16) \o "=="
        ELSE IF Len(data) = 2
        THEN e(b(1) \div 4) \o e((b(1) % 4) * 16 + b(2) \div 16)
             \o e((b(2) % 16) * 4) \o "="
        ELSE e(b(1) \div 4) \o e((b(1) % 4) * 16 + b(2) \div 16)
             \o e((b(2) % 16) * 4 + b(3) \div 64) \o e(b(3) % 64)
             \o base64_encode(SubSeq(data, 4, Len(data)))

(* The characters of a C string as one string (str_append).                *)
RECURSIVE str(_)
str(chars) ==
    IF chars = <<>> THEN "" ELSE Head(chars) \o str(Tail(chars))

(* The mechanisms of mech-plain.c:64-70, mech-login.c:69-75 and            *)
(* mech-external.c:53-60.                                                  *)
Mechs == {"PLAIN", "LOGIN", "EXTERNAL"}

(* enum login_state (mech-login.c:7-11).                                   *)
STATE_INIT == 0
STATE_USER == 1
STATE_PASS == 2

(* dsasl_client_new (declared dsasl-client.h:39-40): a client for mech     *)
(* with a copy of the settings, unless a credential the mechanism needs is *)
(* absent.  client is NULL when the creation failed.                       *)
dsasl_client_new(mech, set) ==
    IF mech \in {"PLAIN", "LOGIN"}
       /\ (set.authid = NULL \/ set.password = NULL)
    THEN [res |-> "ERR_INTERNAL", client |-> NULL]
    ELSE [res |-> "OK",
          client |-> Ptr([mech |-> mech, set |-> set,
                          password |-> set.password,
                          output_sent |-> FALSE, state |-> STATE_INIT])]

(* mech_plain_input that looks only at the challenge.                      *)
mech_plain_input_any_time(c, input) ==
    IF Len(input) > 0
    THEN [c |-> c, res |-> "ERR_PROTOCOL",
          error |-> "Server sent non-empty initial response"]
    ELSE [c |-> c, res |-> "OK", error |-> ""]

(* mech_plain_input (mech-plain.c:12-30).  The result is the client, the   *)
(* result code and error_r.                                                *)
mech_plain_input(c, input) ==
    IF ~c.output_sent
    THEN IF Len(input) > 0
         THEN [c |-> c, res |-> "ERR_PROTOCOL",
               error |-> "Server sent non-empty initial response"]
         ELSE [c |-> c, res |-> "OK", error |-> ""]
    ELSE [c |-> c, res |-> "ERR_PROTOCOL",
          error |-> "Server didn't finish authentication"]

(* mech_plain_output that leaves the authorization ID out.                 *)
mech_plain_output_without_authzid(c) ==
    IF c.set.authid = NULL
    THEN [c |-> c, res |-> "ERR_INTERNAL", out |-> <<>>,
          error |-> "authid not set"]
    ELSE IF c.password = NULL
    THEN [c |-> c, res |-> "ERR_INTERNAL", out |-> <<>>,
          error |-> "password not set"]
    ELSE [c |-> [c EXCEPT !.output_sent = TRUE], res |-> "OK",
          out |-> <<NUL>> \o c.set.authid[1] \o <<NUL>> \o c.password[1],
          error |-> ""]

(* mech_plain_output (mech-plain.c:32-62).  out is the output buffer.      *)
mech_plain_output(c) ==
    IF c.set.authid = NULL
    THEN [c |-> c, res |-> "ERR_INTERNAL", out |-> <<>>,
          error |-> "authid not set"]
    ELSE IF c.password = NULL
    THEN [c |-> c, res |-> "ERR_INTERNAL", out |-> <<>>,
          error |-> "password not set"]
    ELSE [c |-> [c EXCEPT !.output_sent = TRUE], res |-> "OK",
          out |-> (IF c.set.authzid # NULL THEN c.set.authzid[1] ELSE <<>>)
                  \o <<NUL>> \o c.set.authid[1] \o <<NUL>> \o c.password[1],
          error |-> ""]

(* mech_login_input that starts over after the password.                  *)
mech_login_input_wraps(c, input) ==
    IF c.state = STATE_PASS
    THEN [c |-> [c EXCEPT !.state = STATE_INIT], res |-> "OK", error |-> ""]
    ELSE [c |-> [c EXCEPT !.state = @ + 1], res |-> "OK", error |-> ""]

(* mech_login_input (mech-login.c:18-33).                                  *)
mech_login_input(c, input) ==
    IF c.state = STATE_PASS
    THEN [c |-> c, res |-> "ERR_PROTOCOL",
          error |-> "Server didn't finish authentication"]
    ELSE [c |-> [c EXCEPT !.state = @ + 1], res |-> "OK", error |-> ""]

(* mech_login_output that also wants an authorization ID.                 *)
mech_login_output_wants_authzid(c) ==
    IF c.set.authid = NULL \/ c.set.authzid = NULL
    THEN [c |-> c, res |-> "ERR_INTERNAL", out |-> <<>>,
          error |-> "authid not set"]
    ELSE IF c.password = NULL
    THEN [c |-> c, res |-> "ERR_INTERNAL", out |-> <<>>,
          error |-> "password not set"]
    ELSE [c |-> c, res |-> "OK",
          out |-> IF c.state = STATE_INIT THEN <<>>
                  ELSE IF c.state = STATE_USER THEN c.set.authid[1]
                  ELSE c.set.password[1],
          error |-> ""]

(* mech_login_output (mech-login.c:35-67).                                 *)
mech_login_output(c) ==
    IF c.set.authid = NULL
    THEN [c |-> c, res |-> "ERR_INTERNAL", out |-> <<>>,
          error |-> "authid not set"]
    ELSE IF c.password = NULL
    THEN [c |-> c, res |-> "ERR_INTERNAL", out |-> <<>>,
          error |-> "password not set"]
    ELSE [c |-> c, res |-> "OK",
          out |-> IF c.state = STATE_INIT THEN <<>>
                  ELSE IF c.state = STATE_USER THEN c.set.authid[1]
                  ELSE c.set.password[1],
          error |-> ""]

(* mech_external_input (mech-external.c:11-29).                            *)
mech_external_input(c, input) ==
    IF ~c.output_sent
    THEN IF Len(input) > 0
         THEN [c |-> c, res |-> "ERR_PROTOCOL",
               error |-> "Server sent non-empty initial response"]
         ELSE [c |-> c, res |-> "OK", error |-> ""]
    ELSE [c |-> c, res |-> "ERR_PROTOCOL",
          error |-> "Server didn't finish authentication"]

(* mech_external_output that prefers the authentication ID.               *)
mech_external_output_authid_first(c) ==
    [c |-> [c EXCEPT !.output_sent = TRUE], res |-> "OK",
     out |-> IF c.set.authid # NULL THEN c.set.authid[1]
             ELSE IF c.set.authzid # NULL THEN c.set.authzid[1]
             ELSE <<>>,
     error |-> ""]

(* mech_external_output (mech-external.c:31-51).                           *)
mech_external_output(c) ==
    [c |-> [c EXCEPT !.output_sent = TRUE], res |-> "OK",
     out |-> IF c.set.authzid # NULL THEN c.set.authzid[1]
             ELSE IF c.set.authid # NULL THEN c.set.authid[1]
             ELSE <<>>,
     error |-> ""]

(* dsasl_client_input and dsasl_client_output (declared                    *)
(* dsasl-client.h:52-61) call the mechanism's input and output             *)
(* (mech-plain.c:64-70, mech-login.c:69-75, mech-external.c:53-60).        *)
(* other is what a mechanism of the library other than these three         *)
(* answers.                                                                *)
dsasl_client_input(c, input, other) ==
    IF c.mech = "PLAIN" THEN mech_plain_input(c, input)
    ELSE IF c.mech = "LOGIN" THEN mech_login_input(c, input)
    ELSE IF c.mech = "EXTERNAL" THEN mech_external_input(c, input)
    ELSE [c |-> c, res |-> other, error |-> "other"]

dsasl_client_output(c, other) ==
    IF c.mech = "PLAIN" THEN mech_plain_output(c)
    ELSE IF c.mech = "LOGIN" THEN mech_login_output(c)
    ELSE IF c.mech = "EXTERNAL" THEN mech_external_output(c)
    ELSE [c |-> c, res |-> other, out |-> <<>>, error |-> "other"]

----------------------------------------------------------------------------
(* login_proxy_sasl_step (login-proxy.c:870-909).  data is the decoded     *)
(* challenge; str is the encoded response.                                 *)
login_proxy_sasl_step(s, p, data, sasl) ==
    LET i  == dsasl_client_input(s.px[p].proxy_sasl_client[1], data, sasl)
        o  == IF i.res = "OK" THEN dsasl_client_output(i.c, sasl)
              ELSE [c |-> i.c, res |-> i.res, out |-> <<>>,
                    error |-> i.error]
        s1 == [s EXCEPT !.px[p].proxy_sasl_client = Ptr(o.c)]
    IN  IF o.res = "OK"
        THEN [s |-> s1, ret |-> 0, str |-> base64_encode(o.out)]
        ELSE [s |-> login_proxy_failed(
                        s1, p,
                        IF o.res = "AUTH_FAILED" THEN "AUTH_NOT_REPLIED"
                        ELSE IF o.res = "ERR_PROTOCOL" THEN "PROTOCOL"
                        ELSE "INTERNAL",
                        "sasl", FALSE),
              ret |-> -1, str |-> ""]

(* login_proxy_new (login-proxy.c:503-553).                                *)
login_proxy_new(s, p, user, ip, fd_ok) ==
    LET s1 == [s EXCEPT !.px[p] =
                 [FreeProxy EXCEPT !.alloc = TRUE, !.used = TRUE,
                                   !.user = user, !.created = s.now,
                                   !.start_ip = ip, !.proxy_ttl = cfg.proxy_ttl]]
        s2 == login_proxy_set_destination(s1, p, ip)
        s3 == [s2 EXCEPT !.pend = SeqPrepend(@, p)]
    IN  login_proxy_connect(s3, p, fd_ok)

----------------------------------------------------------------------------
(* proxy_send_login that does not wait for the reply to XCLIENT.           *)
proxy_send_login_no_xclient_state(s, p, sasl) ==
    LET px == s.px[p]
        s1 == IAssert(s, px.proxy_ttl > 1, "proxy_ttl > 1")
        xclient == px.proxy_xclient /\ ~cfg.proxy_not_trusted
        st == "login1"
        s2 == [s1 EXCEPT !.px[p].proxy_state = st,
                         !.ev.sent = IF xclient THEN Append(@, "XCLIENT")
                                        ELSE @]
    IN  IF cfg.proxy_mech = "none"
        THEN [s |-> [s2 EXCEPT !.ev.sent =
                        Append(@, "USER " \o str(cfg.proxy_user[1]))],
              ret |-> 0]
        ELSE
        LET sasl_set == [authid |-> IF cfg.proxy_master_user # NULL
                                    THEN cfg.proxy_master_user
                                    ELSE cfg.proxy_user,
                         authzid |-> cfg.proxy_user,
                         password |-> cfg.proxy_password]
            new == dsasl_client_new(cfg.proxy_mech, sasl_set)
            o   == dsasl_client_output(new.client[1], sasl)
            s3  == [IAssert(s2, px.proxy_sasl_client = NULL,
                            "proxy_sasl_client == NULL")
                    EXCEPT !.px[p].proxy_sasl_client = Ptr(o.c)]
        IN  IF o.res # "OK"
            THEN [s |-> login_proxy_failed(s3, p, "INTERNAL",
                                           "SASL mechanism init failed", FALSE),
                  ret |-> -1]
            ELSE [s |-> [s3 EXCEPT
                            !.ev.sent =
                                Append(@, "AUTH " \o cfg.proxy_mech \o " " \o
                                          (IF Len(o.out) = 0 THEN "="
                                           ELSE base64_encode(o.out))),
                            !.px[p].proxy_state =
                                IF st # "xclient" THEN "login2" ELSE @],
                  ret |-> 0]

(* proxy_send_login (pop3-proxy.c:23-113).  sasl is what a mechanism       *)
(* outside lib-sasl's PLAIN, LOGIN and EXTERNAL answers.  The lines        *)
(* written to the server output are kept without their CRLF.               *)
proxy_send_login(s, p, sasl) ==
    LET px == s.px[p]
        s1 == IAssert(s, px.proxy_ttl > 1, "proxy_ttl > 1")
        xclient == px.proxy_xclient /\ ~cfg.proxy_not_trusted
        st == IF xclient THEN "xclient" ELSE "login1"
        s2 == [s1 EXCEPT !.px[p].proxy_state = st,
                         !.ev.sent = IF xclient THEN Append(@, "XCLIENT")
                                        ELSE @]
    IN  IF cfg.proxy_mech = "none"
        THEN [s |-> [s2 EXCEPT !.ev.sent =
                        Append(@, "USER " \o str(cfg.proxy_user[1]))],
              ret |-> 0]
        ELSE
        LET sasl_set == [authid |-> IF cfg.proxy_master_user # NULL
                                    THEN cfg.proxy_master_user
                                    ELSE cfg.proxy_user,
                         authzid |-> cfg.proxy_user,
                         password |-> cfg.proxy_password]
            new == dsasl_client_new(cfg.proxy_mech, sasl_set)
            o   == dsasl_client_output(new.client[1], sasl)
            s3  == [IAssert(s2, px.proxy_sasl_client = NULL,
                            "proxy_sasl_client == NULL")
                    EXCEPT !.px[p].proxy_sasl_client = Ptr(o.c)]
        IN  IF o.res # "OK"
            THEN [s |-> login_proxy_failed(s3, p, "INTERNAL",
                                           "SASL mechanism init failed", FALSE),
                  ret |-> -1]
            ELSE [s |-> [s3 EXCEPT
                            !.ev.sent =
                                Append(@, "AUTH " \o cfg.proxy_mech \o " " \o
                                          (IF Len(o.out) = 0 THEN "="
                                           ELSE base64_encode(o.out))),
                            !.px[p].proxy_state =
                                IF st # "xclient" THEN "login2" ELSE @],
                  ret |-> 0]

(* pop3_proxy_continue_sasl_auth (pop3-proxy.c:115-135).  data is what     *)
(* base64_decode() makes of the line.                                      *)
pop3_proxy_continue_sasl_auth(s, p, line, data, sasl) ==
    IF line.kind = "cont_bad_base64"
    THEN [s |-> login_proxy_failed(s, p, "PROTOCOL",
                                   "Invalid base64 data in AUTH response",
                                   FALSE),
          ret |-> -1]
    ELSE LET r == login_proxy_sasl_step(s, p, data, sasl)
         IN  IF r.ret < 0 THEN [s |-> r.s, ret |-> -1]
             ELSE [s |-> [r.s EXCEPT !.ev.sent = Append(@, r.str)],
                   ret |-> 0]

(* client_proxy_finish_destroy_client of client-common-auth.c: the login   *)
(* succeeded, the session is handed to the byte pump.                      *)
client_proxy_finish_destroy_client(s, p, bypass, anvil_ok) ==
    login_proxy_detach(s, p, bypass, anvil_ok)

IsOk(line) == line.kind \in {"ok", "ok_xclient"}
IsCont(line) == line.kind \in {"cont", "cont_bad_base64"}

(* The lines that begin "-ERR [REFERRAL/", by what uri_parse_host_authority *)
(* and the character after the authority make of them, and the lines that  *)
(* begin "-ERR ".                                                          *)
ReferralKinds ==
    {"referral", "referral_bad_uri", "referral_eol", "referral_bad_char"}
IsErr(line) == line.kind \in {"err", "tempfail"} \cup ReferralKinds

(* pop3_proxy_parse_referral (pop3-proxy.c:137-193): the authority must    *)
(* parse and be followed by "]"; dest is the destination that the          *)
(* "user@host[:port]" it returns names.                                    *)
pop3_proxy_parse_referral(line) ==
    IF line.kind \notin ReferralKinds THEN [ok |-> FALSE, dest |-> 0]
    ELSE IF line.kind = "referral_bad_uri" THEN [ok |-> FALSE, dest |-> 0]
    ELSE IF line.kind = "referral_eol" THEN [ok |-> FALSE, dest |-> 0]
    ELSE IF line.kind = "referral_bad_char" THEN [ok |-> FALSE, dest |-> 0]
    ELSE [ok |-> TRUE, dest |-> line.dest]

(* The failure type pop3_proxy_parse_line gives a line that is not the     *)
(* expected reply (pop3-proxy.c:303-322).                                  *)
pop3_failure_type(line) ==
    IF ~IsErr(line) THEN "AUTH_REPLIED"
    ELSE IF line.kind = "tempfail" THEN "AUTH_TEMPFAIL"
    ELSE IF pop3_proxy_parse_referral(line).ok THEN "AUTH_REDIRECT"
    ELSE "AUTH_REPLIED"

(* pop3_proxy_parse_line's replies that keep every referral from the       *)
(* client, parsed or not.                                                  *)
pop3_failed_line_reply_hides_referrals(s, line) ==
    IF ~IsErr(line)
    THEN [s EXCEPT !.ev.replies = Append(@, "ERROR AUTH_FAILED_MSG")]
    ELSE IF line.kind = "tempfail" THEN s
    ELSE IF line.kind \in ReferralKinds THEN s
    ELSE [s EXCEPT !.ev.replies = Append(@, "backend line")]

(* What pop3_proxy_parse_line sends the client itself before it reports    *)
(* the failed login (pop3-proxy.c:305-317): AUTH_FAILED_MSG for a line     *)
(* that is not "-ERR ", nothing for a temporary failure or a referral, the *)
(* backend's line for any other "-ERR ".                                   *)
pop3_failed_line_reply(s, line) ==
    IF ~IsErr(line)
    THEN [s EXCEPT !.ev.replies = Append(@, "ERROR AUTH_FAILED_MSG")]
    ELSE IF line.kind = "tempfail" THEN s
    ELSE IF pop3_proxy_parse_referral(line).ok THEN s
    ELSE [s EXCEPT !.ev.replies = Append(@, "backend line")]

(* pop3_proxy_parse_line that also forwards the +OK to USER.               *)
pop3_proxy_parse_line_forwards_user_reply(s, p, line, in) ==
    LET px == s.px[p]
        failed_line ==
            LET type == pop3_failure_type(line)
            IN  login_proxy_failed(
                    pop3_failed_line_reply(s, line), p, type,
                    IF type = "AUTH_REDIRECT"
                    THEN pop3_proxy_parse_referral(line).dest ELSE "line",
                    in.fd_ok)
    IN  CASE px.proxy_state = "banner" ->
               IF ~IsOk(line)
               THEN login_proxy_failed(s, p, "PROTOCOL", "Invalid banner", FALSE)
               ELSE LET s1 == [s EXCEPT !.px[p].proxy_xclient =
                                            (line.kind = "ok_xclient")]
                    IN  IF "STARTTLS" \notin cfg.ssl_flags
                        THEN proxy_send_login(s1, p, in.sasl).s
                        ELSE [s1 EXCEPT !.px[p].proxy_state = "starttls",
                                        !.ev.sent = Append(@, "STLS")]
          [] px.proxy_state = "starttls" ->
               IF ~IsOk(line)
               THEN login_proxy_failed(s, p, "REMOTE", "STLS failed", FALSE)
               ELSE LET r == login_proxy_starttls(s, p, in.tls)
                    IN  IF r.ret < 0 THEN r.s
                        ELSE proxy_send_login(r.s, p, in.sasl).s
          [] px.proxy_state = "xclient" ->
               IF ~IsOk(line)
               THEN login_proxy_failed(s, p, "REMOTE", "XCLIENT failed", FALSE)
               ELSE [s EXCEPT !.px[p].proxy_state =
                        IF px.proxy_sasl_client = NULL THEN "login1"
                        ELSE "login2"]
          [] px.proxy_state = "login1" ->
               LET s1 == IAssert(s, px.proxy_sasl_client = NULL,
                                 "proxy_sasl_client == NULL")
               IN  IF ~IsOk(line) THEN failed_line
                   ELSE [s1 EXCEPT !.px[p].proxy_state = "login2",
                                   !.ev.forwarded = line.kind,
                                   !.ev.sent =
                                       Append(@, "PASS " \o
                                                 str(cfg.proxy_password[1]))]
          [] px.proxy_state = "login2" ->
               IF IsCont(line) /\ px.proxy_sasl_client # NULL
               THEN pop3_proxy_continue_sasl_auth(s, p, line, in.challenge,
                                                  in.sasl).s
               ELSE IF ~IsOk(line) THEN failed_line
               ELSE client_proxy_finish_destroy_client(
                        [s EXCEPT !.ev.forwarded = line.kind], p, in.bypass,
                        in.anvil_ok)

(* pop3_proxy_parse_line that logs in on the banner whatever the TLS      *)
(* flags say.                                                              *)
pop3_proxy_parse_line_login_on_banner(s, p, line, in) ==
    LET px == s.px[p]
        failed_line ==
            LET type == pop3_failure_type(line)
            IN  login_proxy_failed(
                    pop3_failed_line_reply(s, line), p, type,
                    IF type = "AUTH_REDIRECT"
                    THEN pop3_proxy_parse_referral(line).dest ELSE "line",
                    in.fd_ok)
    IN  CASE px.proxy_state = "banner" ->
               IF ~IsOk(line)
               THEN login_proxy_failed(s, p, "PROTOCOL", "Invalid banner", FALSE)
               ELSE LET s1 == [s EXCEPT !.px[p].proxy_xclient =
                                            (line.kind = "ok_xclient")]
                    IN  IF TRUE
                        THEN proxy_send_login(s1, p, in.sasl).s
                        ELSE [s1 EXCEPT !.px[p].proxy_state = "starttls",
                                        !.ev.sent = Append(@, "STLS")]
          [] px.proxy_state = "starttls" ->
               IF ~IsOk(line)
               THEN login_proxy_failed(s, p, "REMOTE", "STLS failed", FALSE)
               ELSE LET r == login_proxy_starttls(s, p, in.tls)
                    IN  IF r.ret < 0 THEN r.s
                        ELSE proxy_send_login(r.s, p, in.sasl).s
          [] px.proxy_state = "xclient" ->
               IF ~IsOk(line)
               THEN login_proxy_failed(s, p, "REMOTE", "XCLIENT failed", FALSE)
               ELSE [s EXCEPT !.px[p].proxy_state =
                        IF px.proxy_sasl_client = NULL THEN "login1"
                        ELSE "login2"]
          [] px.proxy_state = "login1" ->
               LET s1 == IAssert(s, px.proxy_sasl_client = NULL,
                                 "proxy_sasl_client == NULL")
               IN  IF ~IsOk(line) THEN failed_line
                   ELSE [s1 EXCEPT !.px[p].proxy_state = "login2",
                                   !.ev.sent =
                                       Append(@, "PASS " \o
                                                 str(cfg.proxy_password[1]))]
          [] px.proxy_state = "login2" ->
               IF IsCont(line) /\ px.proxy_sasl_client # NULL
               THEN pop3_proxy_continue_sasl_auth(s, p, line, in.challenge,
                                                  in.sasl).s
               ELSE IF ~IsOk(line) THEN failed_line
               ELSE client_proxy_finish_destroy_client(
                        [s EXCEPT !.ev.forwarded = line.kind], p, in.bypass,
                        in.anvil_ok)

(* pop3_proxy_parse_line (pop3-proxy.c:195-323).  in carries what the      *)
(* environment answers during the call: sasl, tls, fd_ok, bypass, anvil_ok.*)
pop3_proxy_parse_line(s, p, line, in) ==
    LET px == s.px[p]
        failed_line ==
            LET type == pop3_failure_type(line)
            IN  login_proxy_failed(
                    pop3_failed_line_reply(s, line), p, type,
                    IF type = "AUTH_REDIRECT"
                    THEN pop3_proxy_parse_referral(line).dest ELSE "line",
                    in.fd_ok)
    IN  CASE px.proxy_state = "banner" ->
               IF ~IsOk(line)
               THEN login_proxy_failed(s, p, "PROTOCOL", "Invalid banner", FALSE)
               ELSE LET s1 == [s EXCEPT !.px[p].proxy_xclient =
                                            (line.kind = "ok_xclient")]
                    IN  IF "STARTTLS" \notin cfg.ssl_flags
                        THEN proxy_send_login(s1, p, in.sasl).s
                        ELSE [s1 EXCEPT !.px[p].proxy_state = "starttls",
                                        !.ev.sent = Append(@, "STLS")]
          [] px.proxy_state = "starttls" ->
               IF ~IsOk(line)
               THEN login_proxy_failed(s, p, "REMOTE", "STLS failed", FALSE)
               ELSE LET r == login_proxy_starttls(s, p, in.tls)
                    IN  IF r.ret < 0 THEN r.s
                        ELSE proxy_send_login(r.s, p, in.sasl).s
          [] px.proxy_state = "xclient" ->
               IF ~IsOk(line)
               THEN login_proxy_failed(s, p, "REMOTE", "XCLIENT failed", FALSE)
               ELSE [s EXCEPT !.px[p].proxy_state =
                        IF px.proxy_sasl_client = NULL THEN "login1"
                        ELSE "login2"]
          [] px.proxy_state = "login1" ->
               LET s1 == IAssert(s, px.proxy_sasl_client = NULL,
                                 "proxy_sasl_client == NULL")
               IN  IF ~IsOk(line) THEN failed_line
                   ELSE [s1 EXCEPT !.px[p].proxy_state = "login2",
                                   !.ev.sent =
                                       Append(@, "PASS " \o
                                                 str(cfg.proxy_password[1]))]
          [] px.proxy_state = "login2" ->
               IF IsCont(line) /\ px.proxy_sasl_client # NULL
               THEN pop3_proxy_continue_sasl_auth(s, p, line, in.challenge,
                                                  in.sasl).s
               ELSE IF ~IsOk(line) THEN failed_line
               ELSE client_proxy_finish_destroy_client(
                        [s EXCEPT !.ev.forwarded = line.kind], p, in.bypass,
                        in.anvil_ok)

----------------------------------------------------------------------------
(* proxy_side_channel_input (login-proxy.c:193-229).  what is "eof" for    *)
(* i_stream_read() = -1 and "callback_failed" for a line whose             *)
(* side_callback returns -1; a line the callback accepts changes nothing.  *)
proxy_side_channel_input(s, p, what) ==
    IF what = "eof" THEN [s EXCEPT !.px[p].side_channel_io = FALSE]
    ELSE IF what = "callback_failed" THEN login_proxy_disconnect(s, p)
    ELSE s

(* proxy_client_disconnected_input (login-proxy.c:176-186).                *)
proxy_client_disconnected_input(s, p, eof) ==
    IF eof THEN login_proxy_free_final(s, p) ELSE s

(* login_proxy_free_errstr that passes the Delayed flag for either side.   *)
login_proxy_free_errstr_always_delayed(s, p, server, rnd) ==
    LET disconnect_side == IF server THEN "server" ELSE "client"
    IN  [login_proxy_free_full(s, p, TRUE, rnd)
         EXCEPT !.ev.disconnect_side = disconnect_side]

(* login_proxy_free_errstr (login-proxy.c:146-174).                        *)
login_proxy_free_errstr(s, p, server, rnd) ==
    LET disconnect_side == IF server THEN "server" ELSE "client"
    IN  [login_proxy_free_full(s, p, server, rnd)
         EXCEPT !.ev.disconnect_side = disconnect_side]

(* login_proxy_finished (login-proxy.c:1106-1135).  side is "client" or    *)
(* "server".                                                               *)
login_proxy_finished(s, p, side, status, rnd) ==
    LET server_side == (side = "server")
    IN  login_proxy_free_errstr(
            s, p,
            IF status = "OTHER_SIDE_OUTPUT_ERROR" THEN ~server_side
            ELSE server_side,
            rnd)

(* proxy_last_io (login-proxy.c:124-144), in seconds.                      *)
proxy_last_io(s, p) == s.px[p].last_io \div 1000

(* proxy_kill_idle (login-proxy.c:1332-1338).                              *)
proxy_kill_idle(s, p) ==
    [login_proxy_free_full(s, p, FALSE, 0)
     EXCEPT !.ev.free_reasons = @ \cup {"Process shutting down"},
            !.ev.reaped = @ \cup {[p |-> p,
                                   idle_secs |-> (s.now \div 1000) -
                                                 proxy_last_io(s, p)]}]

(* login_proxy_kill_idle (login-proxy.c:1340-1360): the loop over          *)
(* login_proxies, from the proxy at index i on.                            *)
RECURSIVE kill_idle_from(_, _, _)
kill_idle_from(s, list, i) ==
    IF i > Len(list) THEN s
    ELSE
    LET p == list[i]
        stop_timestamp == (s.now \div 1000) - LOGIN_PROXY_DIE_IDLE_SECS
        last_io == proxy_last_io(s, p)
    IN  kill_idle_from(
            IF last_io <= stop_timestamp THEN proxy_kill_idle(s, p)
            ELSE [IAssert(s, s.px[p].to = NoTimer, "proxy->to == NULL")
                  EXCEPT !.px[p].to =
                      [kind |-> "kill_idle",
                       at |-> s.now + (last_io - stop_timestamp) * 1000]],
            list, i + 1)

login_proxy_kill_idle(s) == kill_idle_from(s, s.det, 1)

(* guid_128 of a proxy: empty until anvil answered the connect.            *)
anvil_conn_guid(s, p) == IF s.px[p].anvil_connect_sent THEN p ELSE 0

(* login_proxy_kick_user_connection (login-proxy.c:1362-1397): the first   *)
(* loop walks the by-user chain, the second the pending list; client_destroy *)
(* of a pending client frees its proxy.  conn_guid 0 is "no guid".         *)
RECURSIVE kick_detached_from(_, _, _, _, _)
kick_detached_from(s, chain, i, conn_guid, rnd) ==
    IF i > Len(chain) THEN s
    ELSE
    LET p == chain[i]
    IN  kick_detached_from(
            IF conn_guid = 0 \/ anvil_conn_guid(s, p) = conn_guid
            THEN [login_proxy_free_full(s, p, TRUE, rnd[s.px[p].ip])
                  EXCEPT !.ev.kicked = @ + 1,
                         !.ev.free_reasons = @ \cup {"Kicked by admin"}]
            ELSE s,
            chain, i + 1, conn_guid, rnd)

RECURSIVE kick_pending_from(_, _, _, _, _)
kick_pending_from(s, list, i, user, conn_guid) ==
    IF i > Len(list) THEN s
    ELSE
    LET p == list[i]
    IN  kick_pending_from(
            IF s.px[p].user = user /\
               (conn_guid = 0 \/ anvil_conn_guid(s, p) = conn_guid)
            THEN [login_proxy_free(s, p)
                  EXCEPT !.ev.kicked = @ + 1,
                         !.ev.free_reasons = @ \cup {"Kicked by admin"}]
            ELSE s,
            list, i + 1, user, conn_guid)

login_proxy_kick_user_connection(s, user, conn_guid, rnd) ==
    LET s1 == kick_detached_from(s, s.hash[user], 1, conn_guid, rnd)
    IN  kick_pending_from(s1, s1.pend, 1, user, conn_guid)

(* login_proxy_deinit (login-proxy.c:1416-1435).                           *)
RECURSIVE deinit_detached(_)
deinit_detached(s) ==
    IF s.det = <<>> THEN s
    ELSE IF s.px[Head(s.det)].destroying
    THEN IAssert(s, FALSE, "login_proxy_deinit never ends")
    ELSE deinit_detached(
             [login_proxy_free_full(s, Head(s.det), FALSE, 0)
              EXCEPT !.ev.free_reasons = @ \cup {"Process shutting down"}])

RECURSIVE deinit_disconnecting(_)
deinit_disconnecting(s) ==
    IF s.disc = <<>> THEN s
    ELSE deinit_disconnecting(login_proxy_free_final(s, Head(s.disc)))

login_proxy_deinit(s) ==
    LET s1 == deinit_detached(s)
        s2 == IAssert(s1, s1.cnt = 0, "detached_login_proxies_count == 0")
        s3 == deinit_disconnecting(s2)
    IN  IAssert(s3, \A u \in Users : s3.hash[u] = <<>>,
                "hash_table_count(login_proxies_hash) == 0")

----------------------------------------------------------------------------
(* Configurations: the settings of the login process and what its          *)
(* environment (backends, TLS library, clients) may answer.                *)
BaseCfg ==
    [nprox |-> 1, users |-> {1}, dests |-> {1}, referrals |-> {},
     local_ip |-> NumDests, proxy_ttl |-> 3,
     login_proxy_max_reconnects |-> MaxReconnects,
     connect_timeout_msecs |-> 2000,
     host_immediate_failure_after_secs |-> 0,
     max_delay |-> 2, notify_refresh_secs |-> 0,
     ssl_flags |-> {}, proxy_mech |-> "none", proxy_not_trusted |-> TRUE,
     local_name |-> "valid", multiplex |-> FALSE,
     lines |-> {"ok", "err"}, sasl |-> {"OK"}, tls |-> {"ok"},
     fd_ok |-> {TRUE}, errs |-> {FALSE, TRUE}, anvil |-> {TRUE},
     jitter |-> {0}, ticks |-> {1000}, guids |-> {0}, relay |-> FALSE,
     clock |-> MaxClock,
     proxy_user |-> Ptr(<<"a", "l", "i", "c", "e">>),
     proxy_master_user |-> NULL,
     proxy_password |-> Ptr(<<"s", "e", "c", "r", "e", "t">>),
     challenges |-> {<<>>},
     history |-> [d \in Dests |-> NewRecord]]

(* Several proxies share one destination and one user; a connect fails    *)
(* only by its timeout.                                                    *)
SharedCfg ==
    [BaseCfg EXCEPT !.nprox = NumProxies, !.lines = {"ok"},
                    !.errs = {FALSE}]

(* One proxy with referrals, a side channel and relayed bytes.             *)
SingleCfg ==
    [BaseCfg EXCEPT !.referrals = {2}, !.multiplex = TRUE, !.relay = TRUE,
                    !.lines = {"ok", "tempfail"} \cup ReferralKinds]

(* One proxy whose retry budget is exactly PROXY_CONNECT_RETRY_MIN_MSECS   *)
(* one second after it was created.                                        *)
RetryCfg ==
    [BaseCfg EXCEPT !.connect_timeout_msecs =
                        PROXY_CONNECT_RETRY_MIN_MSECS + 1000,
                    !.lines = {"ok", "err", "tempfail"}]

(* One proxy whose backends refer it to any destination; no time passes.   *)
RedirectCfg ==
    [BaseCfg EXCEPT !.referrals = Dests, !.proxy_ttl = MaxTtl,
                    !.lines = {"ok", "referral"}, !.errs = {FALSE},
                    !.clock = 0]

(* Several proxies connect to a destination that has a history: it last    *)
(* succeeded 30 s before the start (or never) and failed later; when it    *)
(* answers at all it refuses the login.                                    *)
DownHistories ==
    LET ls == StartMsecs - 30000
        th == DownThreshold * 1000
    IN  {[threshold |-> DownThreshold, last_success |-> ls,
          last_failure |-> StartMsecs - 5000],
         [threshold |-> DownThreshold, last_success |-> ls,
          last_failure |-> ls + th],
         [threshold |-> DownThreshold, last_success |-> ls,
          last_failure |-> ls + th + 999],
         [threshold |-> DownThreshold, last_success |-> ls,
          last_failure |-> ls + th + 1000],
         [threshold |-> DownThreshold, last_success |-> 0,
          last_failure |-> StartMsecs - 5000],
         [threshold |-> 0, last_success |-> ls,
          last_failure |-> StartMsecs - 5000]}

DownCfg(h) ==
    [SharedCfg EXCEPT
        !.host_immediate_failure_after_secs = h.threshold,
        !.errs = {FALSE, TRUE},
        !.lines = {"err"},
        !.clock = 1,
        !.history = [d \in Dests |->
                        [NewRecord EXCEPT !.last_success = h.last_success,
                                          !.last_failure = h.last_failure]]]

(* Proxies of two users share one destination; the admin kicks a user or    *)
(* one connection of a user.                                               *)
KickCfg ==
    [SharedCfg EXCEPT !.users = Users, !.guids = {0, 1},
                      !.anvil = BOOLEAN, !.clock = 0]

(* Two proxies of one user with login_proxy_max_disconnect_delay = 0:      *)
(* delaying is off.                                                        *)
NoDelayCfg ==
    [BaseCfg EXCEPT !.nprox = 2, !.lines = {"ok"}, !.errs = {FALSE},
                    !.max_delay = 0]

(* Two proxies of one user whose disconnects are spread over three        *)
(* seconds, with the least and the largest value i_rand_limit() can give.  *)
SmearCfg ==
    [BaseCfg EXCEPT !.nprox = 2, !.lines = {"ok"}, !.errs = {FALSE},
                    !.max_delay = 3,
                    !.jitter = {0, PROXY_DISCONNECT_INTERVAL_MSECS - 1},
                    !.clock = 0]

(* One proxy that logs in with USER and PASS to a backend that may offer   *)
(* XCLIENT in its banner and is trusted with it.                           *)
UserPassCfg ==
    [BaseCfg EXCEPT !.proxy_not_trusted = FALSE,
                    !.lines = {"ok", "ok_xclient", "cont", "err"},
                    !.errs = {FALSE}, !.clock = 1]

(* One proxy that logs in with STLS, XCLIENT and a SASL mechanism; the     *)
(* backend, the TLS library and the mechanism may each fail.               *)
AuthCfg ==
    [BaseCfg EXCEPT !.proxy_mech = "other", !.proxy_not_trusted = FALSE,
                    !.ssl_flags = {"YES", "STARTTLS"},
                    !.lines = {"ok", "ok_xclient", "cont", "cont_bad_base64",
                               "err", "tempfail", "garbage"},
                    !.sasl = {"OK", "AUTH_FAILED", "ERR_PROTOCOL",
                              "ERR_INTERNAL"},
                    !.tls = {"ok", "create_failed", "handshake_failed"},
                    !.errs = {FALSE}, !.clock = 1]

(* One proxy that connects with implicit TLS and logs in with the SASL     *)
(* mechanism mech; the backend may go on sending challenges.               *)
SaslCfg(mech) ==
    [BaseCfg EXCEPT !.proxy_mech = mech, !.ssl_flags = {"YES"},
                    !.lines = {"ok", "cont", "err"},
                    !.challenges = {<<>>, <<"x">>},
                    !.errs = {FALSE}, !.clock = 1]

(* One proxy that may reconnect once more than the others, with a connect *)
(* timeout of five seconds, to a backend that refuses connects; the        *)
(* process may also get no socket.                                         *)
ReconnectCfg ==
    [BaseCfg EXCEPT !.login_proxy_max_reconnects = MaxReconnects + 1,
                    !.connect_timeout_msecs = 5000,
                    !.fd_ok = BOOLEAN, !.lines = {"ok"},
                    !.clock = MaxClock]

(* One proxy whose client came in with a local_name that is no valid DNS   *)
(* name.                                                                   *)
LocalNameCfg ==
    [BaseCfg EXCEPT !.local_name = "invalid"]

(* One proxy whose client arrives with a TTL of t and whose backends      *)
(* refer it to any destination.                                            *)
TtlCfg(t) ==
    [RedirectCfg EXCEPT !.proxy_ttl = t]

Lines ==
    {[kind |-> k, dest |-> 0] : k \in cfg.lines \ {"referral"}} \cup
    {[kind |-> "referral", dest |-> d] :
        d \in IF "referral" \in cfg.lines THEN cfg.referrals ELSE {}}

Inputs ==
    [sasl : cfg.sasl, tls : cfg.tls, fd_ok : cfg.fd_ok, bypass : BOOLEAN,
     anvil_ok : cfg.anvil, challenge : cfg.challenges]

InitWith(c) ==
    /\ cfg = c
    /\ proxies = [p \in Proxies |-> FreeProxy]
    /\ recs = c.history
    /\ login_proxies_pending = <<>>
    /\ login_proxies = <<>>
    /\ login_proxies_disconnecting = <<>>
    /\ login_proxies_hash = [u \in Users |-> <<>>]
    /\ detached_login_proxies_count = 0
    /\ ioloop_time = StartMsecs
    /\ panic = ""
    /\ ev = NoEv
    /\ running = TRUE

(* A user of lib-sasl outside the proxy: the mechanism and settings it     *)
(* creates a client with, the client, and what the last call was given     *)
(* and answered.  before is the client the call found; accepted,           *)
(* inputs and outputs count the input() calls that returned OK, the        *)
(* input() calls and the output() calls.                                   *)
NoSasl ==
    [mech |-> "", set |-> [authid |-> NULL, authzid |-> NULL,
                           password |-> NULL],
     client |-> NULL, before |-> NULL, op |-> "none", input |-> <<>>,
     res |-> "", out |-> <<>>, accepted |-> 0, inputs |-> 0, outputs |-> 0]

Init ==
    /\ dsasl = NoSasl
    /\ \/ InitWith(SharedCfg)
       \/ InitWith(SingleCfg)
       \/ InitWith(RetryCfg)
       \/ InitWith(RedirectCfg)
       \/ \E h \in DownHistories : InitWith(DownCfg(h))
       \/ \E t \in 1..MinTtl : InitWith(TtlCfg(t))
       \/ InitWith(KickCfg)
       \/ InitWith(AuthCfg)
       \/ \E mech \in Mechs : InitWith(SaslCfg(mech))
       \/ InitWith(ReconnectCfg)
       \/ InitWith(LocalNameCfg)
       \/ InitWith(NoDelayCfg)
       \/ InitWith(SmearCfg)
       \/ InitWith(UserPassCfg)

(* A step leaves the state its handler computed; a failed assertion stops  *)
(* the process where it was.                                               *)
Apply(s) ==
    IF s.panic # ""
    THEN /\ panic' = s.panic
         /\ ev' = NoEv
         /\ UNCHANGED <<proxies, recs, login_proxies_pending, login_proxies,
                        login_proxies_disconnecting, login_proxies_hash,
                        detached_login_proxies_count, ioloop_time, cfg,
                        running, dsasl>>
    ELSE /\ proxies' = s.px
         /\ recs' = s.rec
         /\ login_proxies_pending' = s.pend
         /\ login_proxies' = s.det
         /\ login_proxies_disconnecting' = s.disc
         /\ login_proxies_hash' = s.hash
         /\ detached_login_proxies_count' = s.cnt
         /\ ev' = s.ev
         /\ UNCHANGED <<ioloop_time, panic, cfg, running, dsasl>>

Live == running /\ panic = ""

TimerDue(p, kind) ==
    /\ proxies[p].alloc
    /\ proxies[p].to.kind = kind
    /\ proxies[p].to.at <= ioloop_time

(* A client logs in and is to be proxied: login_proxy_new.                 *)
New(p) ==
    /\ Live
    /\ p <= cfg.nprox
    /\ ~proxies[p].used
    /\ \A q \in Proxies : q < p => proxies[q].used
    /\ \E user \in cfg.users, ip \in cfg.dests, fd_ok \in cfg.fd_ok :
          Apply(login_proxy_new(St, p, user, ip, fd_ok))

(* The connecting socket became writable: proxy_wait_connect.              *)
WaitConnect(p) ==
    /\ Live
    /\ proxies[p].alloc
    /\ proxies[p].server_io = "write"
    /\ \E err \in cfg.errs, tls \in cfg.tls :
          Apply(proxy_wait_connect(St, p, err, tls))

(* The connect/login timeout fired: proxy_connect_timeout.                 *)
ConnectTimeout(p) ==
    /\ Live
    /\ TimerDue(p, "connect")
    /\ Apply(proxy_connect_failed(St, p))

(* The reconnect delay is over: proxy_reconnect_timeout.                   *)
ReconnectTimeout(p) ==
    /\ Live
    /\ TimerDue(p, "reconnect")
    /\ \E fd_ok \in cfg.fd_ok :
          Apply(login_proxy_connect([St EXCEPT !.px[p].to = NoTimer],
                                    p, fd_ok))

(* A line arrived from the backend before login: proxy_prelogin_input      *)
(* and the driver's pop3_proxy_parse_line.                                 *)
PreloginInput(p) ==
    /\ Live
    /\ proxies[p].alloc
    /\ proxies[p].server_io = "read"
    /\ \E line \in Lines, in \in Inputs :
          Apply(pop3_proxy_parse_line(St, p, line, in))

(* The backend announced multiplexing: login_proxy_multiplex_input_start.  *)
MultiplexStart(p) ==
    /\ Live
    /\ cfg.multiplex
    /\ proxies[p].alloc
    /\ proxies[p].server_io = "read"
    /\ ~proxies[p].side_channel_input
    /\ Apply(login_proxy_multiplex_input_start(St, p))

(* Input on the side channel: proxy_side_channel_input.                    *)
SideChannelInput(p) ==
    /\ Live
    /\ proxies[p].alloc
    /\ proxies[p].side_channel_io
    /\ proxies[p].side_channel_input
    /\ \E what \in {"eof", "callback_failed"} :
          Apply(proxy_side_channel_input(St, p, what))

(* Bytes were relayed: the streams' last read/write times move.            *)
Relay(p) ==
    /\ Live
    /\ proxies[p].alloc
    /\ cfg.relay
    /\ proxies[p].iostream_proxy
    /\ proxies[p].last_io < ioloop_time
    /\ Apply([St EXCEPT !.px[p].last_io = ioloop_time])

(* The byte pump completed: login_proxy_finished.                          *)
IostreamFinished(p) ==
    /\ Live
    /\ proxies[p].alloc
    /\ proxies[p].iostream_proxy
    /\ \E side \in {"client", "server"},
          status \in {"INPUT_EOF", "INPUT_ERROR", "OTHER_SIDE_OUTPUT_ERROR"},
          rnd \in cfg.jitter :
          Apply(login_proxy_finished(St, p, side, status, rnd))

(* The client went away before login: client_destroy -> login_proxy_free.  *)
ClientDestroy(p) ==
    /\ Live
    /\ proxies[p].alloc
    /\ ~proxies[p].detached
    /\ ~proxies[p].destroying
    /\ Apply(login_proxy_free(St, p))

(* A second login_proxy_free_full on a proxy whose teardown has begun.     *)
FreeFullAgain(p) ==
    /\ Live
    /\ proxies[p].alloc
    /\ proxies[p].destroying
    /\ \E delayed \in BOOLEAN, rnd \in cfg.jitter :
          Apply(login_proxy_free_full(St, p, delayed, rnd))

(* The admin kicks a user: login_proxy_kick_user_connection.               *)
Kick ==
    /\ Live
    /\ \E user \in cfg.users, conn_guid \in cfg.guids,
          rnd \in [Dests -> cfg.jitter] :
          Apply(login_proxy_kick_user_connection(St, user, conn_guid, rnd))

(* The process was asked to die: login_proxy_kill_idle.                    *)
KillIdle ==
    /\ Live
    /\ login_proxies # <<>>
    /\ Apply(login_proxy_kill_idle(St))

(* The idle timer of a proxy fired: proxy_kill_idle.                       *)
KillIdleTimeout(p) ==
    /\ Live
    /\ TimerDue(p, "kill_idle")
    /\ Apply(proxy_kill_idle(St, p))

(* The delay of a delayed disconnect is over: login_proxy_free_final.      *)
FreeFinalTimeout(p) ==
    /\ Live
    /\ TimerDue(p, "free_final")
    /\ Apply(login_proxy_free_final(St, p))

(* The client of a delayed disconnect closed: proxy_client_disconnected_input *)
ClientDisconnectedInput(p) ==
    /\ Live
    /\ proxies[p].alloc
    /\ proxies[p].client_wait_io
    /\ \E eof \in BOOLEAN :
          Apply(proxy_client_disconnected_input(St, p, eof))

(* The step of a shutdown: the state login_proxy_deinit computed, after    *)
(* which the process no longer runs.                                       *)
ApplyLast(s) ==
    IF s.panic # "" THEN Apply(s) /\ running' = running
    ELSE /\ proxies' = s.px
         /\ recs' = s.rec
         /\ login_proxies_pending' = s.pend
         /\ login_proxies' = s.det
         /\ login_proxies_disconnecting' = s.disc
         /\ login_proxies_hash' = s.hash
         /\ detached_login_proxies_count' = s.cnt
         /\ ev' = s.ev
         /\ running' = FALSE
         /\ UNCHANGED <<ioloop_time, panic, cfg, dsasl>>

(* The process shuts down with no client left: login_proxy_deinit.         *)
Deinit ==
    /\ Live
    /\ login_proxies_pending = <<>>
    /\ ApplyLast(login_proxy_deinit(St))

(* Time passes, up to the next timer that is due.                          *)
Deadlines ==
    {proxies[p].to.at : p \in {q \in Proxies : proxies[q].alloc /\
                                               proxies[q].to # NoTimer}}

Tick ==
    /\ Live
    /\ \E d \in cfg.ticks \cup {t - ioloop_time : t \in Deadlines} :
          /\ d > 0
          /\ ioloop_time + d <= StartMsecs + cfg.clock * 1000
          /\ \A t \in Deadlines : ioloop_time + d <= t
          /\ ioloop_time' = ioloop_time + d
    /\ ev' = NoEv
    /\ UNCHANGED <<proxies, recs, login_proxies_pending, login_proxies,
                   login_proxies_disconnecting, login_proxies_hash,
                   detached_login_proxies_count, panic, cfg, running,
                   dsasl>>

Next ==
    \/ \E p \in Proxies : New(p)
    \/ \E p \in Proxies : WaitConnect(p)
    \/ \E p \in Proxies : ConnectTimeout(p)
    \/ \E p \in Proxies : ReconnectTimeout(p)
    \/ \E p \in Proxies : PreloginInput(p)
    \/ \E p \in Proxies : MultiplexStart(p)
    \/ \E p \in Proxies : SideChannelInput(p)
    \/ \E p \in Proxies : Relay(p)
    \/ \E p \in Proxies : IostreamFinished(p)
    \/ \E p \in Proxies : ClientDestroy(p)
    \/ \E p \in Proxies : FreeFullAgain(p)
    \/ \E p \in Proxies : KillIdleTimeout(p)
    \/ \E p \in Proxies : FreeFinalTimeout(p)
    \/ \E p \in Proxies : ClientDisconnectedInput(p)
    \/ Kick
    \/ KillIdle
    \/ Deinit
    \/ Tick

Spec == Init /\ [][Next]_vars

(* Two proxies of one user that log in and are disconnected, with time     *)
(* enough for every delay to run out.                                      *)
DrainCfg ==
    [BaseCfg EXCEPT !.nprox = 2, !.lines = {"ok"}, !.errs = {FALSE},
                    !.clock = 3]

(* One proxy whose backend announces multiplexing and whose bytes are      *)
(* relayed after the login.                                                *)
PumpCfg ==
    [BaseCfg EXCEPT !.lines = {"ok"}, !.multiplex = TRUE, !.relay = TRUE,
                    !.clock = 1]

FairInit ==
    /\ dsasl = NoSasl
    /\ \/ InitWith(DrainCfg)
       \/ InitWith(PumpCfg)
       \/ InitWith(ReconnectCfg)

(* The timers of the ioloop fire when they are due, and time passes: weak  *)
(* fairness of Tick and of every timer callback.  For the callbacks that   *)
(* run a whole failure path the condition is written out, with the guard   *)
(* of the action for its ENABLED.                                          *)
TimerFairness ==
    /\ WF_vars(Tick)
    /\ \A p \in Proxies :
          /\ WF_vars(FreeFinalTimeout(p))
          /\ \/ []<>~(Live /\ TimerDue(p, "connect"))
             \/ []<><<ConnectTimeout(p)>>_vars
          /\ \/ []<>~(Live /\ TimerDue(p, "reconnect"))
             \/ []<><<ReconnectTimeout(p)>>_vars
          /\ \/ []<>~(Live /\ TimerDue(p, "kill_idle"))
             \/ []<><<KillIdleTimeout(p)>>_vars

FairSpec == FairInit /\ [][Next]_vars /\ TimerFairness

----------------------------------------------------------------------------
(* lib-sasl used on its own: a client is created for any mechanism with    *)
(* any of the settings set or left NULL, and input() and output() are      *)
(* called on it in any order with an empty or a non-empty challenge.       *)
SaslSettings ==
    [authid : {NULL, Ptr(<<"a", "l", "i", "c", "e">>)},
     authzid : {NULL, Ptr(<<"b", "o", "b">>)},
     password : {NULL, Ptr(<<"s", "e", "c", "r", "e", "t">>)}]

SaslChallenges == {<<>>, <<"x">>}

SaslInit ==
    /\ InitWith(BaseCfg)
    /\ \E mech \in Mechs, set \in SaslSettings :
          dsasl = [NoSasl EXCEPT !.mech = mech, !.set = set]

SaslCalls == dsasl.inputs + dsasl.outputs

(* dsasl_client_new(mech, set).                                            *)
SaslNew ==
    /\ dsasl.op = "none"
    /\ LET new == dsasl_client_new(dsasl.mech, dsasl.set)
       IN  dsasl' = [dsasl EXCEPT !.op = "new", !.res = new.res,
                                !.client = new.client]
    /\ UNCHANGED <<proxies, recs, login_proxies_pending, login_proxies,
                   login_proxies_disconnecting, login_proxies_hash,
                   detached_login_proxies_count, ioloop_time, panic, ev,
                   cfg, running>>

(* dsasl_client_input(client, input).                                      *)
SaslInput ==
    /\ dsasl.client # NULL
    /\ SaslCalls < MaxCalls
    /\ \E input \in SaslChallenges :
          LET r == dsasl_client_input(dsasl.client[1], input, "OK")
          IN  dsasl' = [dsasl EXCEPT
                          !.op = "input", !.input = input, !.res = r.res,
                          !.out = <<>>, !.before = dsasl.client,
                          !.client = Ptr(r.c), !.inputs = @ + 1,
                          !.accepted = IF r.res = "OK" THEN @ + 1 ELSE @]
    /\ UNCHANGED <<proxies, recs, login_proxies_pending, login_proxies,
                   login_proxies_disconnecting, login_proxies_hash,
                   detached_login_proxies_count, ioloop_time, panic, ev,
                   cfg, running>>

(* dsasl_client_output(client).                                            *)
SaslOutput ==
    /\ dsasl.client # NULL
    /\ SaslCalls < MaxCalls
    /\ LET r == dsasl_client_output(dsasl.client[1], "OK")
       IN  dsasl' = [dsasl EXCEPT
                       !.op = "output", !.input = <<>>, !.res = r.res,
                       !.out = r.out, !.before = dsasl.client,
                       !.client = Ptr(r.c), !.outputs = @ + 1]
    /\ UNCHANGED <<proxies, recs, login_proxies_pending, login_proxies,
                   login_proxies_disconnecting, login_proxies_hash,
                   detached_login_proxies_count, ioloop_time, panic, ev,
                   cfg, running>>

SaslNext == SaslNew \/ SaslInput \/ SaslOutput

SaslSpec == SaslInit /\ [][SaslNext]_vars

----------------------------------------------------------------------------
(* The properties of the login proxy that are checked.                     *)

OnPending(p) == InSeq(login_proxies_pending, p)
OnDetached(p) == InSeq(login_proxies, p)
OnDisconnecting(p) == InSeq(login_proxies_disconnecting, p)
Freed(p) == proxies[p].used /\ ~proxies[p].alloc

(* C1: no DestRec counter is decremented while it is 0: none of the        *)
(* i_assert(counter > 0) guards before a decrement of                      *)
(* num_waiting_connections, num_proxying_connections or                    *)
(* num_delayed_client_disconnects ever fails, and the counters never go    *)
(* below 0.                                                                *)
C1_CountersNeverUnderflow ==
    /\ panic \notin {"num_waiting_connections > 0",
                     "num_proxying_connections > 0",
                     "num_delayed_client_disconnects > 0"}
    /\ \A d \in Dests :
          /\ recs[d].num_waiting_connections >= 0
          /\ recs[d].num_proxying_connections >= 0
          /\ recs[d].num_delayed_client_disconnects >= 0

(* Two proxies shared a DestRec: one is freed, the other waits on the      *)
(* disconnecting list, and the record counts exactly that one.             *)
C1_Witness ==
    \E p, q \in Proxies :
       /\ Freed(p)
       /\ proxies[q].alloc /\ proxies[q].delayed_disconnect
       /\ recs[proxies[q].ip].num_delayed_client_disconnects = 1
       /\ recs[proxies[q].ip].num_proxying_connections = 0
       /\ recs[proxies[q].ip].num_waiting_connections = 0
       /\ panic = ""

(* C2: every connect attempt is counted in num_waiting_connections once    *)
(* and released once: the record's count is the number of proxies whose    *)
(* attempt is not yet released (num_waiting_connections_updated clear),    *)
(* and the assertion !num_waiting_connections_updated of                   *)
(* proxy_fail_connect never fails.                                         *)
C2_WaitingCountedOnce ==
    /\ panic # "!num_waiting_connections_updated"
    /\ \A d \in Dests :
          recs[d].num_waiting_connections =
              Cardinality({p \in Proxies :
                              /\ proxies[p].alloc
                              /\ proxies[p].ip = d
                              /\ ~proxies[p].num_waiting_connections_updated})

(* A proxy whose first attempt failed and whose second attempt succeeded:  *)
(* both were released, while another proxy's attempt is still counted.     *)
C2_Witness ==
    \E p, q \in Proxies :
       /\ proxies[p].alloc /\ proxies[p].reconnect_count = 1
       /\ proxies[p].connected
       /\ proxies[q].alloc /\ proxies[q].ip = proxies[p].ip
       /\ ~proxies[q].num_waiting_connections_updated
       /\ recs[proxies[p].ip].num_waiting_connections = 1

(* C3: a proxy is on at most one of the lists pending, detached and        *)
(* disconnecting: on pending from creation until detach or free, on        *)
(* detached from detach until free_full, on disconnecting only between a   *)
(* delayed free_full and the final free; a freed proxy is on none.         *)
C3_OneListPerProxy ==
    \A p \in Proxies :
       /\ OnPending(p) <=> proxies[p].alloc /\ ~proxies[p].detached
       /\ OnDetached(p) <=> /\ proxies[p].alloc
                            /\ proxies[p].detached
                            /\ ~proxies[p].destroying
       /\ OnDisconnecting(p) <=> /\ proxies[p].alloc
                                 /\ proxies[p].delayed_disconnect
       /\ ~(OnPending(p) /\ OnDetached(p))
       /\ ~(OnPending(p) /\ OnDisconnecting(p))
       /\ ~(OnDetached(p) /\ OnDisconnecting(p))

(* One proxy is on pending or detached while another waits on              *)
(* disconnecting.                                                          *)
C3_Witness ==
    \E p, q \in Proxies :
       /\ OnDisconnecting(p) /\ ~OnDetached(p) /\ ~OnPending(p)
       /\ proxies[p].detached /\ proxies[p].destroying
       /\ Freed(q)

(* C4: a detached proxy that has not entered free_full is connected, so    *)
(* i_assert(proxy->connected) of login_proxy_free_full never fails.        *)
C4_DetachedIsConnected ==
    /\ panic # "proxy->connected"
    /\ \A p \in Proxies :
          proxies[p].alloc /\ proxies[p].detached /\ ~proxies[p].destroying
              => proxies[p].connected

(* C5: login_proxy_free_full is idempotent: a call made once teardown has  *)
(* begun changes nothing (no counter, registry or timer), so two calls     *)
(* leave the state one call leaves; and destroying, once set, stays set    *)
(* for as long as the proxy exists.                                        *)
FreeFullTwiceIsOnce ==
    \A p \in Proxies, d1, d2 \in BOOLEAN, r1, r2 \in cfg.jitter :
       proxies[p].alloc =>
          LET once == login_proxy_free_full(St, p, d1, r1)
          IN  once.panic = "" /\ once.px[p].alloc
                 => /\ once.px[p].destroying
                    /\ login_proxy_free_full(once, p, d2, r2) = once

DestroyingStays ==
    \A p \in Proxies :
       proxies[p].alloc /\ proxies[p].destroying /\ proxies'[p].alloc
           => proxies'[p].destroying

C5_FreeFullIdempotent ==
    []FreeFullTwiceIsOnce /\ [][DestroyingStays]_vars

(* A proxy whose teardown has begun waits on the disconnecting list with   *)
(* its timer armed, where a second free_full can reach it.                 *)
C5_Witness ==
    \E p \in Proxies :
       /\ proxies[p].alloc /\ proxies[p].destroying
       /\ OnDisconnecting(p)
       /\ proxies[p].to.kind = "free_final"
       /\ login_proxy_free_full(St, p, TRUE, 0) = St

(* C6: a failure reported through login_proxy_failed schedules a reconnect *)
(* (server side disconnected, one-shot 1000 ms timer, reconnect_count      *)
(* incremented, failure_callback told reconnecting) if and only if its     *)
(* type is not Internal, InternalConfig, RemoteConfig, AuthReplied or      *)
(* AuthNotReplied, reconnect_count < max_reconnects, disable_reconnect is  *)
(* clear and left_ms = connect_timeout_ms - elapsed is at least 1100.      *)
C6_RetryIffBudgetAtLeastMin ==
    ev.fail # "" =>
       /\ ev.reconnecting <=>
             /\ ev.fail \notin {"INTERNAL", "INTERNAL_CONFIG", "REMOTE_CONFIG",
                                "AUTH_REPLIED", "AUTH_NOT_REPLIED"}
             /\ ev.reconnect_count < cfg.login_proxy_max_reconnects
             /\ ~ev.disable_reconnect
             /\ ev.left_msecs >= PROXY_CONNECT_RETRY_MIN_MSECS
       /\ ev.reconnecting =>
             /\ proxies[ev.p].alloc
             /\ proxies[ev.p].to = [kind |-> "reconnect",
                                    at |-> ioloop_time +
                                           PROXY_CONNECT_RETRY_MSECS]
             /\ proxies[ev.p].reconnect_count = ev.reconnect_count + 1
             /\ ~proxies[ev.p].server_fd
             /\ ~proxies[ev.p].connected

(* C7: once two or more redirects to a destination have been followed,     *)
(* the next login_proxy_redirect_finish to it fails with InternalConfig    *)
(* "Proxying loops" and neither disconnects, decrements the TTL nor        *)
(* starts a connect.                                                       *)
C7_LoopAfterTwoFollowed ==
    ev.redirect # 0 /\ ev.followed >= PROXY_REDIRECT_LOOP_MIN_COUNT =>
       /\ ev.looping
       /\ ev.fail = "INTERNAL_CONFIG"
       /\ ev.reason = "Proxying loops"
       /\ ev.connect_ip = 0
       /\ ev.sockets = 0

(* C8: login_proxy_redirect_finish to the local (ip,port) of the client's  *)
(* accept socket is rejected with InternalConfig "Proxying loops", without *)
(* any connect.                                                            *)
C8_RedirectToLocalRejected ==
    ev.redirect # 0 /\ ev.redirect = cfg.local_ip =>
       /\ ev.looping
       /\ ev.fail = "INTERNAL_CONFIG"
       /\ ev.reason = "Proxying loops"
       /\ ev.connect_ip = 0
       /\ ev.sockets = 0

(* C9: a session that was referred to B once and followed it, and is then  *)
(* referred to B by B, has this second redirect accepted, which brings     *)
(* redirect_path[B].count to 2; only the third redirect to B is rejected   *)
(* with InternalConfig.                                                    *)
C9_SecondReferralToSameAccepted ==
    /\ ev.redirect # 0 /\ ev.redirect_from = ev.redirect
       /\ ev.followed = 1 /\ ev.followed_total = 1
          => /\ ~ev.looping
             /\ ev.connect_ip = ev.redirect
             /\ \E i \in 1..Len(proxies[ev.p].redirect_path) :
                   /\ proxies[ev.p].redirect_path[i].ip = ev.redirect
                   /\ proxies[ev.p].redirect_path[i].count = 2
    /\ ev.redirect # 0 /\ ev.redirect_from = ev.redirect
       /\ ev.followed = 2 /\ ev.followed_total = 2
          => ev.looping /\ ev.fail = "INTERNAL_CONFIG"

(* C10: login_proxy_connect fails with Connect "Host has been down for N   *)
(* secs", sets disable_reconnect and opens no socket exactly when          *)
(* host_immediate_failure_after_secs > 0, down_secs (the whole seconds by  *)
(* which last_failure is newer than last_success, 0 if it is not newer)    *)
(* exceeds it, and num_waiting_connections > 1; it is then never retried.  *)
C10_ImmediateFailureExactly ==
    ev.checked =>
       LET down == IF ev.last_failure > ev.last_success
                   THEN (ev.last_failure - ev.last_success) \div 1000
                   ELSE 0
           rejected == ev.reason = "Host has been down"
       IN  /\ rejected <=>
                 /\ cfg.host_immediate_failure_after_secs > 0
                 /\ down > cfg.host_immediate_failure_after_secs
                 /\ ev.num_waiting > 1
           /\ rejected =>
                 /\ ev.fail = "CONNECT"
                 /\ ev.down_secs = down
                 /\ ev.disable_reconnect
                 /\ ~ev.reconnecting
                 /\ ev.sockets = 0
           /\ ~rejected => ev.sockets = 1

(* The record last succeeded 30 s and last failed 5 s before the second of *)
(* two concurrent connects, which is rejected with N = 25.                 *)
C10_Witness ==
    /\ ev.checked
    /\ ev.reason = "Host has been down"
    /\ cfg.host_immediate_failure_after_secs = DownThreshold
    /\ ev.last_success = ioloop_time - 30000
    /\ ev.last_failure = ioloop_time - 5000
    /\ ev.num_waiting = 2
    /\ ev.down_secs = 25
    /\ ev.sockets = 0

KickTargets(user, conn_guid) ==
    {p \in Proxies :
        /\ \/ InSeq(login_proxies_hash[user], p)
           \/ OnPending(p) /\ proxies[p].user = user
        /\ conn_guid = 0 \/ anvil_conn_guid(St, p) = conn_guid}

KickFreesExactly(user, conn_guid, rnd) ==
    LET targets == KickTargets(user, conn_guid)
        after == login_proxy_kick_user_connection(St, user, conn_guid, rnd)
    IN  /\ after.panic = ""
        /\ after.ev.kicked = Cardinality(targets)
        /\ after.ev.frees + Len(after.disc) - Len(login_proxies_disconnecting)
              = Cardinality(targets)
        /\ targets # {} => after.ev.free_reasons = {"Kicked by admin"}
        /\ \A p \in targets :
              \/ ~after.px[p].alloc
              \/ /\ proxies[p].detached
                 /\ after.px[p].destroying
                 /\ after.px[p].delayed_disconnect
                 /\ InSeq(after.disc, p)
        /\ \A p \in Proxies \ targets : after.px[p] = proxies[p]
        /\ \A u \in Users \ {user} : after.hash[u] = login_proxies_hash[u]

(* C12: login_proxy_kick_user_connection(user) frees every detached proxy  *)
(* on the user's by_virtual_user chain (with the Delayed flag and "Kicked  *)
(* by admin") and every pending proxy of the user, each exactly once,      *)
(* returns their number and leaves every other proxy as it was; with a     *)
(* conn_guid only the proxies with that anvil_conn_guid are freed and      *)
(* counted.                                                                *)
C12_KickFreesExactlyTheUsers ==
    Live =>
       \A user \in cfg.users, conn_guid \in cfg.guids,
          rnd \in [Dests -> cfg.jitter] :
          KickFreesExactly(user, conn_guid, rnd)

(* C13: login_proxy_deinit ends from every reachable state and leaves the  *)
(* detached list, the by_virtual_user hash and the disconnecting list      *)
(* empty and detached_login_proxies_count = 0; the detached proxies are    *)
(* freed with "Process shutting down" and none of them is put on the       *)
(* disconnecting list, and every proxy that was on the disconnecting list  *)
(* is final-freed.                                                         *)
C13_DeinitEmptiesRegistries ==
    Live =>
       LET after == login_proxy_deinit(St)
       IN  /\ after.panic = ""
           /\ after.det = <<>>
           /\ after.disc = <<>>
           /\ after.cnt = 0
           /\ \A u \in Users : after.hash[u] = <<>>
           /\ login_proxies # <<>> =>
                 after.ev.free_reasons = {"Process shutting down"}
           /\ \A p \in Proxies :
                 OnDetached(p) \/ OnDisconnecting(p) => ~after.px[p].alloc
           /\ \A p \in Proxies : OnPending(p) => after.px[p] = proxies[p]
           /\ after.ev.frees =
                 Len(login_proxies) + Len(login_proxies_disconnecting)

(* What login_proxy_kill_idle is to do with the detached proxy p.          *)
KillIdleReaps(after, p) ==
    LET now == ioloop_time \div 1000
        last_io == proxy_last_io(St, p)
    IN  IF last_io <= now - LOGIN_PROXY_DIE_IDLE_SECS
        THEN ~after.px[p].alloc
        ELSE /\ after.px[p] = [proxies[p] EXCEPT !.to = after.px[p].to]
             /\ after.px[p].to =
                   [kind |-> "kill_idle",
                    at |-> ioloop_time +
                           (last_io + LOGIN_PROXY_DIE_IDLE_SECS - now) * 1000]

(* C14: the idle reaper frees a detached proxy only when its last I/O is   *)
(* at least LOGIN_PROXY_DIE_IDLE_SECS old: login_proxy_kill_idle frees at  *)
(* once every detached proxy with last_io <= now - 2 and arms for every    *)
(* other one a timer of (last_io + 2 - now) seconds.                       *)
C14_ReapedOnlyWhenIdle ==
    /\ \A r \in ev.reaped : r.idle_secs >= LOGIN_PROXY_DIE_IDLE_SECS
    /\ Live /\ login_proxies # <<>> =>
          LET after == login_proxy_kill_idle(St)
          IN  /\ after.panic = ""
              /\ \A p \in Proxies : OnDetached(p) => KillIdleReaps(after, p)

(* C15: for every DestRec num_delayed_client_disconnects is the number of  *)
(* proxies on the disconnecting list whose state_rec it is, and the        *)
(* disconnecting list holds exactly the proxies with delayed_disconnect    *)
(* set that are not yet final-freed, each once.                            *)
C15_DelayedCountIsQueueDepth ==
    /\ \A d \in Dests :
          recs[d].num_delayed_client_disconnects =
              Cardinality({i \in 1..Len(login_proxies_disconnecting) :
                              proxies[login_proxies_disconnecting[i]].ip = d})
    /\ \A p \in Proxies :
          OnDisconnecting(p) <=> proxies[p].alloc /\ proxies[p].delayed_disconnect
    /\ \A i, j \in 1..Len(login_proxies_disconnecting) :
          login_proxies_disconnecting[i] = login_proxies_disconnecting[j]
              => i = j

(* A delayed proxy was final-freed and its DestRec counts none again,      *)
(* after it had counted one.                                               *)
C15_Witness ==
    /\ ev.frees = 1 /\ ev.delayed_frees = 1
    /\ login_proxies_disconnecting = <<>>
    /\ \E p \in Proxies :
          /\ Freed(p)
          /\ recs[1].num_delayed_client_disconnects = 0
          /\ recs[1].num_disconnects_since_ts = 0
          /\ recs[1].disconnect_timestamp # 0
    /\ \A p \in Proxies : p <= cfg.nprox => Freed(p)
    /\ cfg.nprox = NumProxies
    /\ ioloop_time > StartMsecs

(* What a trigger of the final free leaves of the delayed proxy p: it is   *)
(* freed once, off the list, and no timer or watcher of it is left.        *)
FinalFreed(after, p) ==
    /\ after.panic = ""
    /\ ~after.px[p].alloc
    /\ after.px[p].to = NoTimer
    /\ ~after.px[p].client_wait_io
    /\ ~InSeq(after.disc, p)
    /\ after.ev.delayed_frees = 1
    /\ after.ev.timers_left = 0

DelayedWaits ==
    \A p \in Proxies :
       OnDisconnecting(p) /\ Live =>
          /\ proxies[p].to.kind = "free_final"
          /\ proxies[p].client_wait_io
          /\ proxy_client_disconnected_input(St, p, FALSE) = St
          /\ FinalFreed(proxy_client_disconnected_input(St, p, TRUE), p)
          /\ FinalFreed(login_proxy_free_final(St, p), p)
          /\ ~deinit_disconnecting(St).px[p].alloc
          /\ deinit_disconnecting(St).ev.timers_left = 0

(* A step frees a proxy at most once, and a freed proxy has no timer and   *)
(* no client watcher and is never freed again.                             *)
FreedOnce ==
    /\ ev'.frees = Cardinality({p \in Proxies : ~Freed(p) /\ Freed(p)'})
    /\ ev'.timers_left = 0
    /\ \A p \in Proxies :
          Freed(p) => /\ Freed(p)'
                      /\ proxies'[p].to = NoTimer
                      /\ ~proxies'[p].client_wait_io

(* C16: while a proxy waits on the disconnecting list client bytes are     *)
(* read and discarded without a change of state, and each of the delay     *)
(* timer, the client's EOF and the shutdown drain final-frees it at once;  *)
(* the final free happens once per proxy and removes the timer and the     *)
(* client watcher, so no other trigger fires for it afterwards.            *)
C16_DelayedFreedOnce ==
    []DelayedWaits /\ [][FreedOnce]_vars

(* The client of a delayed proxy closed before the delay was over.         *)
C16_Witness ==
    /\ ev.delayed_frees = 1 /\ ev.frees = 1
    /\ login_proxies_disconnecting = <<>>
    /\ \E p \in Proxies :
          /\ Freed(p)
          /\ recs[1].disconnect_timestamp > ioloop_time - 1000
          /\ recs[1].num_delayed_client_disconnects = 0

(* C17: the timer slot proxy->to serves one purpose at a time (connect or  *)
(* login timeout, reconnect delay, idle kill, delayed final free): it is   *)
(* never armed while it is armed, whatever the order of connect,           *)
(* reconnect, redirect, detach, login_proxy_kill_idle (also when it is     *)
(* called again), kick and free, and i_assert(proxy->to == NULL) of        *)
(* login_proxy_kill_idle never fails.                                      *)
C17_TimerSlotSinglePurpose ==
    /\ panic # "proxy->to == NULL"
    /\ ev.rearmed = 0
    /\ \A p \in Proxies :
          proxies[p].alloc =>
             /\ proxies[p].to.kind = "connect" => ~proxies[p].detached
             /\ proxies[p].to.kind = "reconnect" =>
                   ~proxies[p].detached /\ ~proxies[p].server_fd
             /\ proxies[p].to.kind = "kill_idle" => OnDetached(p)
             /\ proxies[p].to.kind = "free_final" => OnDisconnecting(p)

NoRepeats(q) == \A i, j \in 1..Len(q) : q[i] = q[j] => i = j

(* C19: detached_login_proxies_count is the length of the detached list,   *)
(* every detached proxy is once on the by_virtual_user chain of its own    *)
(* user and on no other, and the hash has a key for a user exactly when a  *)
(* detached proxy of that user exists, so the i_unreached() of             *)
(* login_proxy_detached_unlink is never hit.                               *)
C19_DetachedRegistriesAgree ==
    /\ panic \notin {"i_unreached (detached_unlink)",
                     "detached_login_proxies_count > 0",
                     "detached_login_proxies_count == 0",
                     "hash_table_count(login_proxies_hash) == 0"}
    /\ detached_login_proxies_count = Len(login_proxies)
    /\ NoRepeats(login_proxies)
    /\ \A u \in Users :
          /\ NoRepeats(login_proxies_hash[u])
          /\ \A p \in Proxies :
                InSeq(login_proxies_hash[u], p) <=>
                    OnDetached(p) /\ proxies[p].user = u
          /\ login_proxies_hash[u] # <<>> <=>
                \E p \in Proxies : OnDetached(p) /\ proxies[p].user = u

(* Two proxies of one user were detached and the idle reaper freed the     *)
(* one that was idle: the other is alone on the list and on the chain.     *)
C19_Witness ==
    \E p, q \in Proxies :
       /\ Freed(p)
       /\ \E r \in ev.reaped : r.p = p
       /\ login_proxies = <<q>>
       /\ login_proxies_hash[proxies[q].user] = <<q>>
       /\ detached_login_proxies_count = 1

(* C20: over a POP3 proxy session with any number of reconnects the client *)
(* gets no failure reply for a failure that leads to a reconnect and one   *)
(* reply for the final failure: TempFail for Connect, Internal, Remote,    *)
(* Protocol and AuthRedirect, Error for InternalConfig, RemoteConfig and   *)
(* AuthNotReplied, the backend's "[SYS/TEMP]" reason for AuthTempfail      *)
(* (sent only once it is known that there is no reconnect), and for        *)
(* AuthReplied nothing beyond the reply the line parser sent.              *)
C20_OneReplyPerSession ==
    ev.fail # "" =>
       IF ev.reconnecting THEN ev.replies = <<>>
       ELSE /\ Len(ev.replies) = 1
            /\ ev.fail \in {"CONNECT", "INTERNAL", "REMOTE", "PROTOCOL",
                            "AUTH_REDIRECT"} => ev.replies[1] = "TEMPFAIL"
            /\ ev.fail \in {"INTERNAL_CONFIG", "REMOTE_CONFIG",
                            "AUTH_NOT_REPLIED"} => ev.replies[1] = "ERROR"
            /\ ev.fail = "AUTH_TEMPFAIL" => ev.replies[1] = "ERROR [SYS/TEMP]"
            /\ ev.fail = "AUTH_REPLIED" =>
                  ev.replies[1] \in {"backend line", "ERROR AUTH_FAILED_MSG"}
            /\ ev.fail \in {"CONNECT", "INTERNAL", "REMOTE", "PROTOCOL",
                            "AUTH_REDIRECT", "INTERNAL_CONFIG",
                            "REMOTE_CONFIG", "AUTH_NOT_REPLIED",
                            "AUTH_TEMPFAIL", "AUTH_REPLIED"}

(* The backend answered "-ERR [SYS/TEMP]" again after a reconnect that the *)
(* same answer had caused: only now the client is sent the reason.         *)
C20_Witness ==
    /\ ev.fail = "AUTH_TEMPFAIL"
    /\ ~ev.reconnecting
    /\ ev.reconnect_count >= 1
    /\ ev.replies = <<"ERROR [SYS/TEMP]">>

----------------------------------------------------------------------------
(* A session of one proxy that connects with implicit TLS and logs in     *)
(* with PLAIN as alice with the password secret and no master user:       *)
(* TLS runs on every connected proxy, so it started at connect-ready      *)
(* before a line was parsed; no step writes STLS; a step that writes to   *)
(* the backend writes auth_line and nothing else; the step that forwards  *)
(* a line to the client forwards the backend's +OK and leaves the proxy    *)
(* detached with num_proxying_connections = 1.                             *)
PlainOverImplicitTls(auth_line) ==
    cfg = SaslCfg("PLAIN") =>
        /\ \A p \in Proxies :
              proxies[p].alloc /\ proxies[p].connected
                  => proxies[p].server_ssl_iostream
        /\ \A i \in 1..Len(ev.sent) : ev.sent[i] # "STLS"
        /\ ev.sent # <<>> => ev.sent = <<auth_line>>
        /\ ev.forwarded # "" =>
              /\ ev.forwarded = "ok"
              /\ \E p \in Proxies :
                    /\ proxies[p].detached
                    /\ recs[proxies[p].ip].num_proxying_connections = 1

(* C21 as the claim states it: PLAIN over implicit TLS through the POP3    *)
(* driver writes only "AUTH PLAIN AGFsaWNlAHNlY3JldA==", the base64 of an  *)
(* empty authzid, NUL, alice, NUL, secret, and ends detached after the     *)
(* backend's +OK was forwarded.                                            *)
C21_PlainLineWithoutAuthzid ==
    PlainOverImplicitTls("AUTH PLAIN AGFsaWNlAHNlY3JldA==")

(* C21 as the code has it: the driver names the proxy user as authzid      *)
(* too, so the line is "AUTH PLAIN YWxpY2UAYWxpY2UAc2VjcmV0", the base64   *)
(* of alice, NUL, alice, NUL, secret; the rest is as the claim states.     *)
C21_PlainLineWithAuthzid ==
    PlainOverImplicitTls("AUTH PLAIN YWxpY2UAYWxpY2UAc2VjcmV0")

C21_Witness ==
    /\ cfg = SaslCfg("PLAIN")
    /\ ev.forwarded = "ok"
    /\ \E p \in Proxies :
          /\ proxies[p].detached
          /\ proxies[p].server_ssl_iostream
          /\ proxies[p].proxy_sasl_client # NULL
          /\ proxies[p].proxy_sasl_client[1].output_sent
          /\ recs[proxies[p].ip].num_proxying_connections = 1

----------------------------------------------------------------------------
(* The reconnects one step schedules: what it adds to the reconnect_count  *)
(* of the sessions that are alive after it; a session the step created     *)
(* started at 0.                                                           *)
ReconnectsScheduled ==
    LET alive == {p \in Proxies : proxies[p].alloc'}
        before(p) == IF proxies[p].alloc THEN proxies[p].reconnect_count
                     ELSE 0
    IN  /\ \A p \in alive :
              proxies[p].reconnect_count' - before(p) =
                  IF ev'.reconnecting /\ ev'.p = p THEN 1 ELSE 0
        /\ ev'.reconnecting_events = (IF ev'.reconnecting THEN 1 ELSE 0)
        /\ ev'.reconnecting_callbacks = ev'.reconnecting_events
        /\ ev'.reconnecting => ev'.p \in alive

ReconnectsBounded ==
    \A p \in Proxies :
        /\ proxies[p].alloc =>
              proxies[p].reconnect_count <= cfg.login_proxy_max_reconnects
        /\ cfg = ReconnectCfg /\ proxies[p].alloc =>
              proxies[p].reconnect_count = proxies[p].refused

(* C22: reconnect_count grows by exactly one per scheduled reconnect, each *)
(* with one proxy_session_reconnecting event and one failure_callback      *)
(* with reconnecting = TRUE, never shrinks while the session lives (a      *)
(* redirect keeps it), never exceeds login_proxy_max_reconnects, and       *)
(* equals the number of refused connects while the budget lasts: two       *)
(* refused connects and a success leave it at 2.                           *)
C22_ReconnectCountCountsReconnects ==
    []ReconnectsBounded /\ [][ReconnectsScheduled]_vars

C22_Witness ==
    /\ cfg = ReconnectCfg
    /\ cfg.login_proxy_max_reconnects >= 2
    /\ \E p \in Proxies :
          /\ proxies[p].connected
          /\ proxies[p].refused = 2
          /\ proxies[p].reconnect_count = 2

----------------------------------------------------------------------------
(* The string a pointer holds, the empty string for NULL.                  *)
OrEmpty(ptr) == IF ptr = NULL THEN <<>> ELSE ptr[1]

(* C23: for a PLAIN client, output() succeeds with exactly authzid (empty  *)
(* when unset), NUL, authid, NUL, password; input() before any output()    *)
(* returns OK iff the challenge is empty and ERR_PROTOCOL otherwise; every *)
(* input() after an output() returns ERR_PROTOCOL; an input() that         *)
(* returns an error leaves the client as it found it.                      *)
C23_PlainContract ==
    dsasl.mech = "PLAIN" /\ dsasl.op \in {"input", "output"} =>
        /\ dsasl.op = "output" =>
              /\ dsasl.res = "OK"
              /\ dsasl.out = OrEmpty(dsasl.set.authzid) \o <<NUL>> \o
                             dsasl.set.authid[1] \o <<NUL>> \o
                             dsasl.set.password[1]
        /\ dsasl.op = "input" /\ dsasl.outputs = 0 =>
              dsasl.res = (IF dsasl.input = <<>> THEN "OK"
                           ELSE "ERR_PROTOCOL")
        /\ dsasl.op = "input" /\ dsasl.outputs > 0 =>
              dsasl.res = "ERR_PROTOCOL"
        /\ dsasl.op = "input" /\ dsasl.res # "OK" =>
              dsasl.client = dsasl.before

C23_Witness ==
    /\ dsasl.mech = "PLAIN"
    /\ dsasl.set.authzid = NULL
    /\ dsasl.op = "input"
    /\ dsasl.input = <<>>
    /\ dsasl.outputs > 0
    /\ dsasl.accepted > 0
    /\ dsasl.res = "ERR_PROTOCOL"

(* C24: for a LOGIN client and any order of input() and output() calls,    *)
(* output() returns the empty string while no input() was accepted,        *)
(* authid after one and the password after two; the state is the number    *)
(* of accepted inputs, moving INIT -> USER -> PASS one step per accepted   *)
(* input(); input() in PASS returns ERR_PROTOCOL and leaves the state, so  *)
(* a fourth input() returns ERR_PROTOCOL.                                  *)
C24_LoginContract ==
    dsasl.mech = "LOGIN" /\ dsasl.op \in {"input", "output"} =>
        LET c == dsasl.client[1]
            b == dsasl.before[1]
        IN  /\ c.state \in {STATE_INIT, STATE_USER, STATE_PASS}
            /\ c.state = dsasl.accepted
            /\ dsasl.op = "output" =>
                  /\ dsasl.res = "OK"
                  /\ c = b
                  /\ dsasl.out =
                        (IF dsasl.accepted = 0 THEN <<>>
                         ELSE IF dsasl.accepted = 1
                         THEN dsasl.set.authid[1]
                         ELSE dsasl.set.password[1])
            /\ dsasl.op = "input" =>
                  IF b.state = STATE_PASS
                  THEN dsasl.res = "ERR_PROTOCOL" /\ c = b
                  ELSE dsasl.res = "OK" /\ c.state = b.state + 1
            /\ dsasl.op = "input" /\ dsasl.inputs >= 4 =>
                  dsasl.res = "ERR_PROTOCOL"

C24_Witness ==
    /\ dsasl.mech = "LOGIN"
    /\ dsasl.op = "input"
    /\ dsasl.inputs = 4
    /\ dsasl.outputs > 0
    /\ dsasl.accepted = 2
    /\ dsasl.client[1].state = STATE_PASS
    /\ dsasl.res = "ERR_PROTOCOL"

(* C25: for an EXTERNAL client, output() never fails and returns authzid   *)
(* if it is set, else authid if it is set, else the empty string, also     *)
(* when no credential is set; input() before any output() returns OK iff   *)
(* the challenge is empty; every input() after an output() returns         *)
(* ERR_PROTOCOL.                                                           *)
C25_ExternalContract ==
    dsasl.mech = "EXTERNAL" /\ dsasl.op \in {"input", "output"} =>
        /\ dsasl.op = "output" =>
              /\ dsasl.res = "OK"
              /\ dsasl.out =
                    (IF dsasl.set.authzid # NULL THEN dsasl.set.authzid[1]
                     ELSE OrEmpty(dsasl.set.authid))
        /\ dsasl.op = "input" /\ dsasl.outputs = 0 =>
              (dsasl.res = "OK") = (dsasl.input = <<>>)
        /\ dsasl.op = "input" /\ dsasl.outputs > 0 =>
              dsasl.res = "ERR_PROTOCOL"

C25_Witness ==
    /\ dsasl.mech = "EXTERNAL"
    /\ dsasl.set = [authid |-> NULL, authzid |-> NULL, password |-> NULL]
    /\ dsasl.op = "input"
    /\ dsasl.input = <<>>
    /\ dsasl.outputs > 0
    /\ dsasl.accepted > 0
    /\ dsasl.res = "ERR_PROTOCOL"

----------------------------------------------------------------------------
(* The step called login_proxy_connect and a pre-check (local_name, TTL,   *)
(* immediate failure) rejected the connect before a socket was asked for.  *)
RejectedByPreCheck == ev.connect_ip # 0 /\ ev.sockets = 0

(* C27 as the claim states it: num_waiting_connections is incremented      *)
(* only after the pre-checks, so the immediate-failure rule compares the   *)
(* value login_proxy_connect found, without this attempt, and a rejected   *)
(* connect leaves the counter as it found it.                              *)
C27_CountedAfterPreChecks ==
    /\ ev.checked => ev.num_waiting = ev.waiting_before
    /\ RejectedByPreCheck =>
          recs[ev.connect_ip].num_waiting_connections = ev.waiting_before

(* C27 as the code has it: login_proxy_connect counts the attempt and      *)
(* clears num_waiting_connections_updated first, so the immediate-failure  *)
(* rule compares the value that includes this attempt; a connect that a    *)
(* pre-check rejects gives its count back within the same call, and a      *)
(* connect that got its socket keeps it.                                   *)
C27_CountedBeforePreChecks ==
    /\ ev.checked => ev.num_waiting = ev.waiting_before + 1
    /\ RejectedByPreCheck =>
          recs[ev.connect_ip].num_waiting_connections = ev.waiting_before
    /\ ev.connect_ip # 0 /\ ev.sockets = 1 /\ ev.fail = "" =>
          /\ recs[ev.connect_ip].num_waiting_connections =
                 ev.waiting_before + 1
          /\ ~proxies[ev.p].num_waiting_connections_updated

C27_Witness ==
    /\ RejectedByPreCheck
    /\ ev.checked
    /\ ev.reason = "Host has been down"
    /\ ev.waiting_before = 1
    /\ ev.num_waiting = 2
    /\ recs[ev.connect_ip].num_waiting_connections = 1

----------------------------------------------------------------------------
(* C28: when the connect of a proxy that is not yet connected fails        *)
(* (no socket, connect() error or connect timeout), last_failure of its    *)
(* record becomes now if and only if the proxy was created at or after     *)
(* the record's last_success, and its waiting count is released; a login   *)
(* timeout of a connected proxy leaves last_failure and the waiting count  *)
(* alone and releases the proxying count.                                  *)
C28_FailureStampedUnlessSucceededSince ==
    LET f   == ev.connect_failed
        rec == recs[f.ip]
    IN  f.called =>
           IF ~f.connected
           THEN /\ rec.last_failure =
                      (IF f.created >= f.rec.last_success THEN f.now
                       ELSE f.rec.last_failure)
                /\ rec.num_waiting_connections =
                       f.rec.num_waiting_connections - 1
                /\ rec.num_proxying_connections =
                       f.rec.num_proxying_connections
           ELSE /\ rec.last_failure = f.rec.last_failure
                /\ rec.num_waiting_connections =
                       f.rec.num_waiting_connections
                /\ rec.num_proxying_connections =
                       f.rec.num_proxying_connections - 1

C28_Witness ==
    LET f == ev.connect_failed
    IN  /\ f.called
        /\ ~f.connected
        /\ f.created < f.rec.last_success
        /\ f.rec.last_failure < f.now
        /\ recs[f.ip].last_failure = f.rec.last_failure

----------------------------------------------------------------------------
(* The redirects a session has followed, over all destinations.            *)
RECURSIVE SumOver(_, _)
SumOver(f, S) ==
    IF S = {} THEN 0
    ELSE LET x == CHOOSE y \in S : TRUE
         IN  f[x] + SumOver(f, S \ {x})

RedirectsFollowed(p) == SumOver(proxies[p].followed, Dests)

(* The proxy_ttl of a living session is what it started with minus one     *)
(* per redirect it followed; a session lives only with a TTL above 1, so   *)
(* it holds a socket after at most T - 2 redirects and the redirect that   *)
(* brings the TTL to 1 ends it.                                            *)
TtlCountsRedirects ==
    \A p \in Proxies :
        proxies[p].alloc =>
            /\ proxies[p].proxy_ttl = cfg.proxy_ttl - RedirectsFollowed(p)
            /\ proxies[p].proxy_ttl > 1
            /\ RedirectsFollowed(p) <= cfg.proxy_ttl - 2

(* A step that accepts a redirect of p takes one from the TTL the connect  *)
(* finds, gives back what p held of its old record, and connects to the    *)
(* new destination; if a socket is opened p waits on the new record.       *)
RedirectAccepted ==
    ev'.redirect # 0 /\ ~ev'.looping =>
        LET p   == ev'.p
            old == proxies[p].ip
            new == ev'.redirect
            released(d) ==
                [recs[d] EXCEPT
                    !.num_proxying_connections =
                        IF d = old /\ proxies[p].connected THEN @ - 1 ELSE @,
                    !.num_waiting_connections =
                        IF d = old /\
                           ~proxies[p].num_waiting_connections_updated
                        THEN @ - 1 ELSE @]
        IN  /\ ev'.connect_ip = new
            /\ ev'.connect_ttl = proxies[p].proxy_ttl - 1
            /\ ev'.sockets = (IF ev'.connect_ttl > 1 THEN 1 ELSE 0)
            /\ \A d \in Dests :
                  /\ recs'[d].num_proxying_connections =
                         released(d).num_proxying_connections
                  /\ recs'[d].num_waiting_connections =
                         released(d).num_waiting_connections +
                         (IF d = new /\ proxies'[p].alloc THEN 1 ELSE 0)
            /\ proxies'[p].alloc =>
                  /\ proxies'[p].ip = new
                  /\ proxies'[p].proxy_ttl = ev'.connect_ttl
                  /\ proxies'[p].server_fd
                  /\ ~proxies'[p].connected
            /\ proxies'[p].alloc = (ev'.connect_ttl > 1)

(* C29: every accepted redirect decrements proxy_ttl by exactly one and    *)
(* nothing else changes it, releases the counters of the old record,       *)
(* rebinds the proxy to the new destination and connects there; a session  *)
(* that starts with proxy_ttl = T opens a socket after at most T - 2       *)
(* redirects and a chain of redirects ends after at most T - 1.            *)
C29_RedirectsBoundedByTtl ==
    []TtlCountsRedirects /\ [][RedirectAccepted]_vars

C29_Witness ==
    /\ ev.redirect # 0
    /\ ~ev.looping
    /\ ev.sockets = 1
    /\ cfg.proxy_ttl >= 3
    /\ \E p \in Proxies :
          /\ proxies[p].alloc
          /\ proxies[p].server_fd
          /\ proxies[p].ip = ev.redirect
          /\ RedirectsFollowed(p) = cfg.proxy_ttl - 2
          /\ proxies[p].proxy_ttl = 2

----------------------------------------------------------------------------
(* The calls of login_proxy_free_full of a step that began a teardown.     *)
FreeCalls == ev'.free_calls

(* A proxy enters login_proxies_disconnecting only through a Delayed free  *)
(* of a detached proxy with a positive maximum delay.                      *)
DisconnectingOnlyIfDelayed ==
    \A p \in Proxies :
        InSeq(login_proxies_disconnecting', p) /\
        ~InSeq(login_proxies_disconnecting, p) =>
            /\ cfg.max_delay > 0
            /\ \E c \in FreeCalls :
                  c.p = p /\ c.detached /\ c.delayed

(* Every other free is final within the call.                              *)
OtherFreesAreFinal ==
    \A c \in FreeCalls :
        ~c.detached \/ ~c.delayed \/ cfg.max_delay = 0 =>
            /\ ~proxies'[c.p].alloc
            /\ ~InSeq(login_proxies_disconnecting', c.p)

(* A free attributed to the client side, a free by the idle reaper and a  *)
(* free at shutdown carry no flag: each is final within the call.          *)
UnflaggedCallers ==
    /\ ev'.disconnect_side = "client" =>
          /\ FreeCalls # {}
          /\ \A c \in FreeCalls : ~c.delayed /\ ~proxies'[c.p].alloc
    /\ ev'.disconnect_side = "server" =>
          \A c \in FreeCalls : c.delayed
    /\ \A r \in ev'.reaped :
          /\ \E c \in FreeCalls : c.p = r.p /\ ~c.delayed
          /\ ~proxies'[r.p].alloc
    /\ running /\ ~running' =>
          /\ \A c \in FreeCalls : ~c.delayed
          /\ \A p \in Proxies : ~proxies'[p].alloc
    /\ ev'.kicked > 0 =>
          \A c \in FreeCalls : c.delayed = c.detached

(* C30: a proxy is placed on the disconnecting list only if it was         *)
(* detached, login_proxy_free_full was called with the Delayed flag and    *)
(* login_proxy_max_disconnect_delay > 0; a free of a proxy that is not     *)
(* detached, a free without the flag (client side, idle reaper, shutdown)  *)
(* and any free with a maximum delay of 0 final-free within the call.      *)
C30_DelayedOnlyWhenDetachedFlaggedAndEnabled ==
    [][DisconnectingOnlyIfDelayed /\ OtherFreesAreFinal /\
       UnflaggedCallers]_vars

C30_Witness ==
    /\ cfg.max_delay = 0
    /\ ev.kicked = 2
    /\ ev.frees = 2
    /\ login_proxies_disconnecting = <<>>
    /\ \A c \in ev.free_calls :
          c.detached /\ c.delayed /\ ~proxies[c.p].alloc
    /\ \E d \in Dests : recs[d].num_disconnects_since_ts = 2

----------------------------------------------------------------------------
(* ceil(a / b) for b > 0.                                                  *)
Ceil(a, b) == CHOOSE k \in 0..a : k * b >= a /\ (k = 0 \/ (k - 1) * b < a)

(* The reference rule of the smear for a Delayed free of the detached      *)
(* proxy p: the inputs as the free finds them, and what the state after    *)
(* the free shows.                                                         *)
Smear(p, rnd) ==
    LET d        == proxies[p].ip
        after    == login_proxy_free_full(St, p, TRUE, rnd)
        n        == recs[d].num_disconnects_since_ts + 1
        max_conns == (recs[d].num_proxying_connections - 1) + n
        per_sec  == Ceil(max_conns, cfg.max_delay)
        ts       == IF recs[d].num_disconnects_since_ts = 0
                    THEN ioloop_time + rnd
                    ELSE recs[d].disconnect_timestamp
        at       == ts + 100 * ((cfg.max_delay * n * 10) \div max_conns)
    IN  [after |-> after, d |-> d, n |-> n, at |-> at,
         at_once |-> n <= per_sec /\
                     recs[d].num_delayed_client_disconnects = 0,
         freed |-> /\ ~after.px[p].alloc
                   /\ after.disc = login_proxies_disconnecting
                   /\ after.rec[d].num_delayed_client_disconnects =
                          recs[d].num_delayed_client_disconnects,
         scheduled |-> /\ after.px[p].alloc
                       /\ after.px[p].to = [kind |-> "free_final", at |-> at]
                       /\ after.disc =
                              SeqPrepend(login_proxies_disconnecting, p)
                       /\ after.rec[d].num_delayed_client_disconnects =
                              recs[d].num_delayed_client_disconnects + 1]

(* The frees the rule is about: a detached proxy whose teardown has not    *)
(* begun, connected as its counters say, with a positive maximum delay,   *)
(* and a free that ran to its end.                                         *)
SmearCase(p, rnd) ==
    /\ proxies[p].alloc /\ proxies[p].detached /\ ~proxies[p].destroying
    /\ cfg.max_delay > 0
    /\ proxies[p].connected
    /\ login_proxy_free_full(St, p, TRUE, rnd).panic = ""

(* C31 as stated: the proxy is freed at once if n <= per_sec and no        *)
(* delayed disconnect is in flight, and otherwise it is always scheduled   *)
(* at disconnect_timestamp + 100 * (max_delay * n * 10 / max_conns) ms,    *)
(* put on the disconnecting list and counted as delayed.                   *)
C31_SmearAlwaysSchedules ==
    \A p \in Proxies, rnd \in cfg.jitter :
        SmearCase(p, rnd) =>
            LET r == Smear(p, rnd)
            IN  /\ r.after.rec[r.d].num_disconnects_since_ts = r.n
                /\ IF r.at_once THEN r.freed ELSE r.scheduled

(* C31: the smear decision of a Delayed free of a detached proxy with      *)
(* max_delay > 0.  With n = num_disconnects_since_ts after the increment,  *)
(* max_conns = num_proxying + n and per_sec = ceil(max_conns / max_delay), *)
(* the proxy is freed at once if n <= per_sec and no delayed disconnect is *)
(* in flight, and also if the time                                         *)
(* disconnect_timestamp + 100 * (max_delay * n * 10 / max_conns) ms has    *)
(* been reached; otherwise it is scheduled for that time, put on the       *)
(* disconnecting list and counted in num_delayed_client_disconnects.       *)
C31_SmearSchedulesFutureTimes ==
    \A p \in Proxies, rnd \in cfg.jitter :
        SmearCase(p, rnd) =>
            LET r == Smear(p, rnd)
            IN  /\ r.after.rec[r.d].num_disconnects_since_ts = r.n
                /\ IF r.at_once \/ r.at <= ioloop_time
                   THEN r.freed ELSE r.scheduled

(* A detached proxy whose Delayed free finds the burst past its first      *)
(* second's worth and the computed time still ahead.                       *)
C31_Witness ==
    \E p \in Proxies, rnd \in cfg.jitter :
        /\ SmearCase(p, rnd)
        /\ ~Smear(p, rnd).at_once
        /\ Smear(p, rnd).scheduled
        /\ Smear(p, rnd).at > ioloop_time

----------------------------------------------------------------------------
(* The proxies the POP3 driver may be given a backend line for.            *)
AwaitsLine(p) ==
    Live /\ proxies[p].alloc /\ proxies[p].server_io = "read"

(* The lines a conversation writes that carry the client's identity or     *)
(* its credentials: everything but STLS.                                   *)
NoStls(sent) ==
    \A i \in 1..Len(sent) : sent[i] # "STLS"

(* C32: with the STARTTLS flag, the driver answers the banner with STLS    *)
(* alone on the plaintext connection, writes XCLIENT, USER, PASS or AUTH   *)
(* only once the STLS answer was +OK and login_proxy_starttls succeeded,   *)
(* or later on the connection that TLS was started on, and ends a          *)
(* conversation whose STLS answer is not +OK with a Remote failure and     *)
(* nothing written.                                                        *)
C32_NoCredentialsBeforeStarttls ==
    \A p \in Proxies, line \in Lines, in \in Inputs :
        (AwaitsLine(p) /\ "STARTTLS" \in cfg.ssl_flags) =>
            LET px   == proxies[p]
                r    == pop3_proxy_parse_line(St, p, line, in)
                sent == r.ev.sent
            IN  /\ px.proxy_state = "banner" =>
                      /\ ~px.server_ssl_iostream
                      /\ sent = IF IsOk(line) THEN <<"STLS">> ELSE <<>>
                /\ px.proxy_state = "starttls" =>
                      /\ ~px.server_ssl_iostream
                      /\ NoStls(sent)
                      /\ ~IsOk(line) => sent = <<>> /\ r.ev.fail = "REMOTE"
                      /\ sent # <<>> =>
                            /\ IsOk(line)
                            /\ login_proxy_starttls(St, p, in.tls).ret >= 0
                /\ px.proxy_state \notin {"banner", "starttls"} =>
                      /\ NoStls(sent)
                      /\ sent # <<>> => px.server_ssl_iostream

(* The backend answered STLS with +OK, TLS was started, and the login      *)
(* lines went out over it.                                                 *)
C32_Witness ==
    /\ "STARTTLS" \in cfg.ssl_flags
    /\ ev.sent # <<>> /\ NoStls(ev.sent)
    /\ \E p \in Proxies :
          /\ proxies[p].alloc /\ proxies[p].server_ssl_iostream
          /\ proxies[p].proxy_state = "xclient"

----------------------------------------------------------------------------
(* The backend replies a conversation in the given driver state still      *)
(* waits for: the banner, the STLS reply, the XCLIENT reply and the one    *)
(* to USER or AUTH, or the reply to the last login line.                   *)
Outstanding(state) ==
    IF state = "xclient" THEN 2 ELSE 1

(* The conversation of p goes on after the call that gave r.               *)
GoesOn(r, p) ==
    /\ r.panic = "" /\ r.ev.fail = "" /\ r.ev.redirect = 0
    /\ r.px[p].alloc /\ ~r.px[p].detached

PassLine == "PASS " \o str(cfg.proxy_password[1])

(* C33: every line the driver consumes and every line it writes keeps the  *)
(* state in step with the replies outstanding; XCLIENT written with USER   *)
(* or AUTH leaves the state XClient, whose +OK gives Login1 without SASL   *)
(* and Login2 with it; PASS is written on a +OK in Login1 and by no other  *)
(* line, and Login1 is not entered again on the same connection.           *)
C33_StateMatchesOutstandingReplies ==
    \A p \in Proxies, line \in Lines, in \in Inputs :
        AwaitsLine(p) =>
            LET px   == proxies[p]
                r    == pop3_proxy_parse_line(St, p, line, in)
                sent == r.ev.sent
                to   == r.px[p].proxy_state
            IN  /\ GoesOn(r, p) =>
                      /\ Outstanding(to) =
                             Outstanding(px.proxy_state) - 1 + Len(sent)
                      /\ to = "login1" =>
                            r.px[p].proxy_sasl_client = NULL
                      /\ (to = "login2" /\ px.proxy_state # "login1") =>
                            r.px[p].proxy_sasl_client # NULL
                      /\ to = "xclient" =>
                            /\ Len(sent) = 2 /\ sent[1] = "XCLIENT"
                            /\ px.proxy_state \in {"banner", "starttls"}
                /\ (px.proxy_state = "xclient" /\ IsOk(line)) =>
                      /\ sent = <<>>
                      /\ to = IF cfg.proxy_mech = "none" THEN "login1"
                              ELSE "login2"
                /\ (\E i \in 1..Len(sent) : sent[i] = PassLine) <=>
                      px.proxy_state = "login1" /\ IsOk(line) /\ r.panic = ""
                /\ (px.proxy_state = "login1" /\ IsOk(line) /\ r.panic = "") =>
                      sent = <<PassLine>> /\ to = "login2"
                /\ (px.proxy_state = "login2" /\ GoesOn(r, p)) =>
                      to = "login2"

(* PASS went out to a backend that had been sent XCLIENT and USER          *)
(* together and has answered both.                                         *)
C33_Witness ==
    /\ ev.sent = <<PassLine>>
    /\ ~cfg.proxy_not_trusted
    /\ \E p \in Proxies :
          /\ proxies[p].alloc /\ proxies[p].proxy_xclient
          /\ proxies[p].proxy_state = "login2"

----------------------------------------------------------------------------
(* The line the driver was given is one it hands to the client itself.     *)
GivenToClient(r) ==
    \/ r.ev.forwarded # ""
    \/ \E i \in 1..Len(r.ev.replies) : r.ev.replies[i] = "backend line"

(* C34: the driver detaches only on a +OK in Login2, having forwarded      *)
(* that line and nothing else to the client; the only other backend line   *)
(* a client is ever given is the -ERR that ends its session for good, so   *)
(* no line precedes the forwarded +OK; a continuation is answered only in  *)
(* Login2 with a SASL client, and every other line in Login2 that is not   *)
(* +OK is a login failure.                                                 *)
C34_DetachOnlyOnLogin2Ok ==
    \A p \in Proxies, line \in Lines, in \in Inputs :
        AwaitsLine(p) =>
            LET px   == proxies[p]
                r    == pop3_proxy_parse_line(St, p, line, in)
                cont == IsCont(line) /\ px.proxy_sasl_client # NULL
            IN  /\ ~px.detached
                /\ r.px[p].detached =>
                      /\ px.proxy_state = "login2" /\ IsOk(line)
                      /\ r.ev.forwarded = line.kind
                      /\ r.ev.replies = <<>> /\ r.ev.sent = <<>>
                /\ r.ev.forwarded # "" <=>
                      px.proxy_state = "login2" /\ IsOk(line) /\ r.panic = ""
                /\ (GivenToClient(r) /\ r.ev.forwarded = "") =>
                      /\ line.kind \in {"err"} \cup (ReferralKinds \ {"referral"})
                      /\ px.proxy_state \in {"login1", "login2"}
                      /\ r.ev.fail = "AUTH_REPLIED" /\ ~r.ev.reconnecting
                      /\ ~r.px[p].alloc
                /\ (IsCont(line) /\ r.panic = "") =>
                      IF px.proxy_state = "login2" /\ cont
                      THEN \/ r.ev.fail \in {"PROTOCOL", "AUTH_NOT_REPLIED",
                                             "INTERNAL"}
                           \/ Len(r.ev.sent) = 1 /\ GoesOn(r, p)
                      ELSE r.ev.sent = <<>> /\ r.ev.fail # ""
                /\ (px.proxy_state = "login2" /\ ~cont /\ ~IsOk(line)
                    /\ r.panic = "") =>
                      /\ ~r.px[p].detached
                      /\ \/ r.ev.fail = pop3_failure_type(line)
                         \/ line.kind = "referral" /\ r.ev.redirect # 0

(* The backend's +OK to the last login line was forwarded and the session  *)
(* handed over, after a continuation had been answered.                    *)
C34_Witness ==
    /\ ev.forwarded = "ok"
    /\ \E p \in Proxies :
          /\ proxies[p].alloc /\ proxies[p].detached
          /\ proxies[p].proxy_state = "login2"
          /\ proxies[p].proxy_sasl_client # NULL
          /\ proxies[p].proxy_sasl_client[1].output_sent

----------------------------------------------------------------------------
(* The states in which a line that is not the expected reply takes the     *)
(* failure path.                                                           *)
LoginStates == {"login1", "login2"}

(* C35: in Login1 and Login2 a referral whose authority parses and is      *)
(* closed by "]" sends the client nothing and makes login_proxy_failed     *)
(* call the redirect_callback with the destination and do nothing else:    *)
(* no failure_callback with AuthRedirect, no reconnect.  A referral that   *)
(* does not parse, ends early or has another character for "]" is a login  *)
(* failure: the line goes to the client and AuthReplied ends the session.  *)
C35_ReferralRedirectsOrFails ==
    \A p \in Proxies, line \in Lines, in \in Inputs :
        (AwaitsLine(p) /\ proxies[p].proxy_state \in LoginStates
         /\ line.kind \in ReferralKinds
         /\ pop3_proxy_parse_line(St, p, line, in).panic = "") =>
            LET px == proxies[p]
                r  == pop3_proxy_parse_line(St, p, line, in)
            IN  IF line.kind = "referral"
                THEN /\ pop3_failed_line_reply(St, line).ev.replies = <<>>
                     /\ r = redirect_callback(St, p, line.dest, in.fd_ok)
                     /\ r.ev.redirect = line.dest
                     /\ r.ev.fail # "AUTH_REDIRECT"
                     /\ ~r.ev.reconnecting /\ r.ev.reconnecting_callbacks = 0
                     /\ r.ev.fail = "" =>
                           /\ r.ev.replies = <<>>
                           /\ r.px[p].alloc /\ r.px[p].ip = line.dest
                           /\ r.px[p].reconnect_count = px.reconnect_count
                           /\ r.px[p].proxy_state = "banner"
                ELSE /\ r.ev.replies = <<"backend line">>
                     /\ r.ev.fail = "AUTH_REPLIED"
                     /\ r.ev.redirect = 0 /\ ~r.ev.reconnecting
                     /\ ~r.px[p].alloc

(* A referral closed by its bracket, from a backend that may also send     *)
(* broken ones, was followed: the client was told nothing and the proxy    *)
(* connects to the destination it names.                                   *)
C35_Witness ==
    /\ ReferralKinds \subseteq cfg.lines
    /\ ev.redirect # 0 /\ ev.fail = "" /\ ev.replies = <<>>
    /\ \E p \in Proxies :
          /\ ev.p = p /\ proxies[p].alloc
          /\ proxies[p].ip = ev.redirect
          /\ proxies[p].proxy_state = "banner"
          /\ proxies[p].redirect_path # <<>>

----------------------------------------------------------------------------
(* The live proxies bound to the record of destination d.                  *)
BoundTo(d) ==
    {p \in Proxies : proxies[p].alloc /\ proxies[p].ip = d}

(* C36: between events every record's num_waiting_connections is the      *)
(* number of live proxies bound to it whose connect is in flight           *)
(* (num_waiting_connections_updated clear) and its                         *)
(* num_proxying_connections the number of those that are connected; a      *)
(* proxy that waits for its reconnect timer or is on the disconnecting     *)
(* list is neither; and a second login_proxy_disconnect right after a      *)
(* first changes nothing.                                                  *)
C36_CountersMatchProxies ==
    /\ \A d \in Dests :
          /\ recs[d].num_waiting_connections =
                Cardinality({p \in BoundTo(d) :
                                ~proxies[p].num_waiting_connections_updated})
          /\ recs[d].num_proxying_connections =
                Cardinality({p \in BoundTo(d) : proxies[p].connected})
    /\ \A p \in Proxies :
          proxies[p].alloc =>
             /\ ~proxies[p].num_waiting_connections_updated <=>
                   proxies[p].server_io = "write"
             /\ ~proxies[p].num_waiting_connections_updated =>
                   ~proxies[p].connected
             /\ (\/ proxies[p].to.kind = "reconnect"
                 \/ InSeq(login_proxies_disconnecting, p)) =>
                   /\ proxies[p].num_waiting_connections_updated
                   /\ ~proxies[p].connected
             /\ LET once  == login_proxy_disconnect(St, p)
                    twice == login_proxy_disconnect(once, p)
                IN  once.panic = "" =>
                       /\ twice = once
                       /\ once.rec[proxies[p].ip].num_waiting_connections =
                             recs[proxies[p].ip].num_waiting_connections -
                             (IF proxies[p].num_waiting_connections_updated
                              THEN 0 ELSE 1)
                       /\ once.rec[proxies[p].ip].num_proxying_connections =
                             recs[proxies[p].ip].num_proxying_connections -
                             (IF proxies[p].connected THEN 1 ELSE 0)

(* One record with a connected proxy and a proxy that waits for its        *)
(* reconnect timer: the record counts one proxying and none waiting.       *)
C36_Witness ==
    \E p, q \in Proxies :
       /\ p # q /\ proxies[p].alloc /\ proxies[q].alloc
       /\ proxies[p].ip = proxies[q].ip
       /\ proxies[p].connected
       /\ proxies[q].to.kind = "reconnect"
       /\ recs[proxies[p].ip].num_proxying_connections = 1
       /\ recs[proxies[p].ip].num_waiting_connections = 0
       /\ panic = ""

----------------------------------------------------------------------------
(* The live proxies other than p whose connect to destination d is in      *)
(* flight.                                                                 *)
OthersConnecting(p, d) ==
    {q \in BoundTo(d) \ {p} : proxies[q].server_io = "write"}

(* login_proxy_connect as login_proxy_new and proxy_reconnect_timeout      *)
(* call it for a proxy that can take it: free, or waiting for its          *)
(* reconnect timer.                                                        *)
ConnectOf(p, d) ==
    IF proxies[p].alloc
    THEN login_proxy_connect([St EXCEPT !.px[p].to = NoTimer], p, TRUE)
    ELSE login_proxy_new(St, p, CHOOSE u \in cfg.users : TRUE, d, TRUE)

(* C37: a connect that the immediate-failure rule rejects leaves another   *)
(* proxy with a connect in flight to the same destination; a connect to a  *)
(* destination no other proxy is connecting to passes the rule however     *)
(* long the destination has been down, and gets its socket; and a connect  *)
(* that succeeds sets last_success to now, after which the destination is  *)
(* not down.                                                               *)
C37_ProbeAlwaysAllowed ==
    /\ (ev.fail = "CONNECT" /\ ev.reason = "Host has been down") =>
          OthersConnecting(ev.p, ev.connect_ip) # {}
    /\ \A p \in Proxies, d \in cfg.dests :
          (/\ Live /\ cfg.local_name # "invalid"
           /\ \/ ~proxies[p].alloc /\ cfg.proxy_ttl > 1
              \/ /\ proxies[p].to.kind = "reconnect" /\ proxies[p].ip = d
                 /\ proxies[p].proxy_ttl > 1
           /\ OthersConnecting(p, d) = {}) =>
             LET r == ConnectOf(p, d)
             IN  /\ r.ev.checked /\ r.ev.sockets = 1 /\ r.ev.fail = ""
                 /\ r.px[p].alloc /\ r.px[p].server_io = "write"
                 /\ r.rec[d].num_waiting_connections = 1
    /\ \A p \in Proxies, tls \in cfg.tls :
          (Live /\ proxies[p].alloc /\ proxies[p].server_io = "write") =>
             LET r == proxy_wait_connect(St, p, FALSE, tls)
                 d == proxies[p].ip
             IN  r.panic = "" =>
                    /\ r.rec[d].last_success = ioloop_time
                    /\ down_secs(r.rec[d]) = 0

(* A destination that has been down for longer than the threshold got a    *)
(* connect while no other was in flight: the socket was opened.            *)
C37_Witness ==
    /\ cfg.host_immediate_failure_after_secs # 0
    /\ ev.checked /\ ev.sockets = 1 /\ ev.waiting_before = 0
    /\ ev.connect_ip # 0
    /\ down_secs(recs[ev.connect_ip]) > cfg.host_immediate_failure_after_secs
    /\ proxies[ev.p].alloc /\ proxies[ev.p].server_io = "write"
    /\ OthersConnecting(ev.p, ev.connect_ip) = {}

----------------------------------------------------------------------------
(* A detached proxy has neither the pre-login watcher of its server input  *)
(* nor a connect, login or reconnect timer: what it may have is the idle   *)
(* reaper's timer or, once disconnected, the timer of its final free.      *)
DetachedHasNoPreloginWatchers ==
    \A p \in Proxies :
        (proxies[p].alloc /\ proxies[p].detached) =>
            /\ proxies[p].server_io = "none"
            /\ proxies[p].to.kind \in {"none", "kill_idle", "free_final"}

(* A step that called login_proxy_failed, or the redirect_callback         *)
(* through it, did so for a proxy that was not detached.                   *)
FailedOnlyBeforeDetach ==
    (ev'.fail # "" \/ ev'.redirect # 0) =>
        /\ ev'.p \in Proxies
        /\ ~proxies[ev'.p].detached

(* The teardown of a detached proxy begins in a step of the byte pump      *)
(* that found a side finished, of an admin kick, of the idle reaper or of  *)
(* the shutdown.                                                           *)
DetachedEndsByPumpKickReaperOrShutdown ==
    \A p \in Proxies :
        (/\ proxies[p].alloc /\ proxies[p].detached /\ ~proxies[p].destroying
         /\ ~proxies'[p].alloc \/ proxies'[p].destroying) =>
            \/ ev'.disconnect_side # ""
            \/ ev'.kicked > 0
            \/ \E r \in ev'.reaped : r.p = p
            \/ running /\ ~running'

(* C38: once login_proxy_detach has cleared input_callback and             *)
(* failure_callback nothing reaches them: the detached proxy has no        *)
(* pre-login watcher and no connect, login or reconnect timer,             *)
(* login_proxy_failed is never called for it, and its teardown begins      *)
(* only by the byte pump finishing, an admin kick, the idle reaper or      *)
(* shutdown.                                                               *)
C38_NoCallbacksAfterDetach ==
    /\ []DetachedHasNoPreloginWatchers
    /\ [][FailedOnlyBeforeDetach /\ DetachedEndsByPumpKickReaperOrShutdown]_vars

(* A proxy that was detached while its login timer was armed and whose     *)
(* backend then went on sending: the timer and the watcher are gone.       *)
C38_Witness ==
    \E p \in Proxies :
       /\ proxies[p].alloc /\ proxies[p].detached /\ proxies[p].connected
       /\ proxies[p].to = NoTimer /\ proxies[p].server_io = "none"
       /\ cfg.connect_timeout_msecs # 0
       /\ ioloop_time >= proxies[p].created + cfg.connect_timeout_msecs
       /\ panic = ""

----------------------------------------------------------------------------
(* login_proxy_delay_disconnect as login_proxy_free_full calls it for a    *)
(* detached proxy: after login_proxy_disconnect and the unlinking.         *)
DelayDisconnectOf(p, rnd) ==
    login_proxy_delay_disconnect(
        login_proxy_detached_unlink(login_proxy_disconnect(St, p), p), p, rnd)

(* A detached, connected proxy whose teardown has not begun.               *)
DelayCase(p) ==
    /\ proxies[p].alloc /\ proxies[p].detached /\ ~proxies[p].destroying
    /\ proxies[p].connected

MaxDelayMsecs == cfg.max_delay * 1000

(* C39: login_proxy_delay_disconnect returns 0 exactly when it did not put *)
(* the proxy on the disconnecting list; a delay it schedules ends at       *)
(* disconnect_timestamp plus a multiple of 100 ms that is at most          *)
(* max_delay seconds; disconnect_timestamp is set by the first disconnect  *)
(* of a burst to less than 100 ms after it and kept by the later ones; so  *)
(* no delay is longer than max_delay seconds plus 100 ms.                  *)
C39_DelayBounded ==
    /\ \A d \in Dests :
          recs[d].disconnect_timestamp <
              ioloop_time + PROXY_DISCONNECT_INTERVAL_MSECS
    /\ \A p \in Proxies, rnd \in cfg.jitter :
          DelayCase(p) =>
             LET r   == DelayDisconnectOf(p, rnd)
                 d   == proxies[p].ip
                 ts  == r.s.rec[d].disconnect_timestamp
                 off == ioloop_time + r.delay - ts
             IN  /\ r.delay >= 0
                 /\ r.delay = 0 <=> ~InSeq(r.s.disc, p)
                 /\ IF recs[d].num_disconnects_since_ts = 0
                    THEN /\ ts >= ioloop_time
                         /\ ts < ioloop_time + PROXY_DISCONNECT_INTERVAL_MSECS
                    ELSE ts = recs[d].disconnect_timestamp
                 /\ r.s.rec[d].num_disconnects_since_ts <=
                       r.s.rec[d].num_proxying_connections +
                       r.s.rec[d].num_disconnects_since_ts
                 /\ r.delay > 0 =>
                       /\ r.s.px[p].to = [kind |-> "free_final",
                                          at |-> ioloop_time + r.delay]
                       /\ off % PROXY_DISCONNECT_INTERVAL_MSECS = 0
                       /\ off >= 0 /\ off <= MaxDelayMsecs
                       /\ r.delay < MaxDelayMsecs +
                                    PROXY_DISCONNECT_INTERVAL_MSECS

(* A burst whose first disconnect drew the largest jitter: a later         *)
(* disconnect of it waits on the disconnecting list for a time counted     *)
(* from the jittered timestamp.                                            *)
C39_Witness ==
    \E p \in Proxies :
       /\ proxies[p].alloc /\ proxies[p].delayed_disconnect
       /\ InSeq(login_proxies_disconnecting, p)
       /\ proxies[p].to.kind = "free_final"
       /\ proxies[p].to.at > ioloop_time
       /\ recs[proxies[p].ip].disconnect_timestamp %
              PROXY_DISCONNECT_INTERVAL_MSECS =
          PROXY_DISCONNECT_INTERVAL_MSECS - 1
       /\ (proxies[p].to.at - recs[proxies[p].ip].disconnect_timestamp) %
              PROXY_DISCONNECT_INTERVAL_MSECS = 0

----------------------------------------------------------------------------
(* The timer of p falls within the time the clock of the model runs.       *)
WithinClock(p) ==
    proxies[p].to.at <= StartMsecs + cfg.clock * 1000

(* A step that final-frees a proxy of the disconnecting list takes one     *)
(* from its record's num_delayed_client_disconnects, and                   *)
(* num_disconnects_since_ts is 0 when that count has reached 0.            *)
FinalFreeDrains ==
    \A p \in Proxies :
        (/\ InSeq(login_proxies_disconnecting, p)
         /\ ~InSeq(login_proxies_disconnecting', p)) =>
            LET d == proxies[p].ip
                gone == {q \in Proxies :
                            /\ InSeq(login_proxies_disconnecting, q)
                            /\ ~InSeq(login_proxies_disconnecting', q)
                            /\ proxies[q].ip = d}
            IN  /\ ~proxies'[p].alloc
                /\ recs'[d].num_delayed_client_disconnects =
                      recs[d].num_delayed_client_disconnects -
                      Cardinality(gone)
                /\ recs'[d].num_delayed_client_disconnects = 0 =>
                      recs'[d].num_disconnects_since_ts = 0

(* With no delayed disconnect left and the count of the window at 0, the   *)
(* next disconnect to the destination takes a new disconnect_timestamp.    *)
DrainedStartsFreshWindow ==
    \A p \in Proxies, rnd \in cfg.jitter :
        (/\ DelayCase(p)
         /\ recs[proxies[p].ip].num_delayed_client_disconnects = 0
         /\ recs[proxies[p].ip].num_disconnects_since_ts = 0) =>
            LET r == DelayDisconnectOf(p, rnd).s.rec[proxies[p].ip]
            IN  /\ r.disconnect_timestamp = ioloop_time + rnd
                /\ r.num_disconnects_since_ts = 1

(* C40: with timers that fire when due, a proxy on the disconnecting list  *)
(* is eventually final-freed; every final free of                          *)
(* such a proxy decrements num_delayed_client_disconnects and the last     *)
(* one resets num_disconnects_since_ts, after which the next disconnect    *)
(* starts a new window.                                                    *)
C40_DisconnectingEventuallyFreed ==
    /\ \A p \in Proxies :
          (InSeq(login_proxies_disconnecting, p) /\ WithinClock(p))
              ~> ~proxies[p].alloc
    /\ [][FinalFreeDrains]_vars
    /\ []DrainedStartsFreshWindow

(* The timer of the last proxy on the disconnecting list fired: the        *)
(* record has no delayed disconnect and its window count is back at 0.     *)
C40_Witness ==
    /\ ev.delayed_frees = 1 /\ ev.frees = 1 /\ ev.free_calls = {}
    /\ login_proxies_disconnecting = <<>>
    /\ running /\ panic = ""
    /\ \E d \in Dests :
          /\ recs[d].disconnect_timestamp # 0
          /\ recs[d].disconnect_timestamp < ioloop_time
          /\ recs[d].num_delayed_client_disconnects = 0
          /\ recs[d].num_disconnects_since_ts = 0

====
